---- MODULE Spec2Model ----
(***************************************************************************)
(* WeatherBox: the alert model (weatherbox/models/alert.py) and the alert  *)
(* service (weatherbox/weather_service.py).                                *)
(*                                                                         *)
(* Representation of Python values:                                        *)
(*   None            [t |-> "none"]                                        *)
(*   str             [t |-> "str", s |-> <<characters>>]                   *)
(*   bool            [t |-> "bool", b |-> TRUE or FALSE]                   *)
(*   int             [t |-> "num", n |-> the integer]                      *)
(*   list (decoded)  [t |-> "list", items |-> <<values>>]                  *)
(*   dict (decoded)  [t |-> "dict", d |-> function from the keys present]  *)
(*   timedelta       [s |-> whole seconds, us |-> microseconds 0..999999]  *)
(*   datetime        [wall |-> h, us |-> u, off |-> timedelta] (aware)     *)
(*                   [wall |-> h, us |-> u]                    (naive)     *)
(*                   wall clock at hour h and u microseconds               *)
(* A list the service builds itself (of alerts, of URLs) is a sequence, a  *)
(* str it is called with (a SAME code, a city) the sequence of its         *)
(* characters.  A character is a one-character string; a character above   *)
(* U+00FF, and the grave accent, is written by its code point, as          *)
(* "U+212A" and "U+0060".  The clock counts whole hours.                   *)
(***************************************************************************)
EXTENDS Integers, Sequences, FiniteSets, TLC

VARIABLES
    now,      \* the clock: what datetime.now(timezone.utc) read last, or would read
    pc,       \* the operation that ran last / position of the running call
    args,     \* arguments of that call
    locals,   \* local variables of the running call
    ret,      \* its outcome: returned value or raised error
    reqlog    \* the GETs issued so far by the call: URL and whether a body came back

vars == <<now, pc, args, locals, ret, reqlog>>

(***************************************************************************)
(* Bounds of the model.                                                    *)
(***************************************************************************)
MaxTime == 3
MaxFeatures == 2
MaxCodes == 2
\* The capacity the coordinate cache is described with, scaled down.
MAX_CACHE_SIZE == 2

Times == 0..MaxTime

\* The readings n successive calls of datetime.now(timezone.utc) can give when the
\* clock is at t: the clock may advance between two readings and does not go back.
ClockReads(t, n) ==
    {ts \in [1..n -> t..MaxTime] : \A i \in 1..(n - 1) : ts[i] <= ts[i + 1]}

\* The clock after the readings ts.
ClockAfter(t, ts) == IF ts = << >> THEN t ELSE ts[Len(ts)]

(***************************************************************************)
(* Python values.                                                          *)
(***************************************************************************)
None == [t |-> "none"]
Str(s) == [t |-> "str", s |-> s]
Bool(b) == [t |-> "bool", b |-> b]
Num(n) == [t |-> "num", n |-> n]
List(items) == [t |-> "list", items |-> items]
\* The keys of the items of a dict display or a JSON object, each once, in the order
\* of their first occurrence: the order of insertion, in which a dict is iterated.
keys_of(items) ==
    LET F[i \in 0..Len(items)] ==
            IF i = 0 THEN << >>
            ELSE IF \E j \in 1..(i - 1) : items[j][1] = items[i][1]
                 THEN F[i - 1]
                 ELSE Append(F[i - 1], items[i][1])
    IN  F[Len(items)]

\* The dict of the items <<key, value>> in the order written: d maps a key to the
\* value of its last item, keys is the order of insertion.
Dict(items) ==
    [t |-> "dict",
     d |-> [k \in {items[i][1] : i \in DOMAIN items} |->
              items[CHOOSE i \in DOMAIN items :
                      /\ items[i][1] = k
                      /\ \A j \in DOMAIN items : items[j][1] = k => j <= i][2]],
     keys |-> keys_of(items)]

IsNone(v) == "t" \in DOMAIN v /\ v.t = "none"
IsStr(v) == "t" \in DOMAIN v /\ v.t = "str"
IsDict(v) == "t" \in DOMAIN v /\ v.t = "dict"

Return(v) == [kind |-> "return", val |-> v]
Raise(e) == [kind |-> "raise", err |-> e]
NoOutcome == [kind |-> "none"]

\* bool(v): None, "", False, 0, [] and {} are false.
truthy(v) ==
    CASE v.t = "none" -> FALSE
      [] v.t = "str" -> v.s # << >>
      [] v.t = "bool" -> v.b
      [] v.t = "num" -> v.n # 0
      [] v.t = "list" -> v.items # << >>
      [] v.t = "dict" -> DOMAIN v.d # {}

\* d.get(key, default).  Only a dict has the attribute get: on any other value the
\* call raises AttributeError, here the value Raise("AttributeError").
DictGet(d, key, default) ==
    IF ~IsDict(d) THEN Raise("AttributeError")
    ELSE IF key \in DOMAIN d.d THEN d.d[key] ELSE default

(***************************************************************************)
(* Characters, str.lower() and str.upper().  The alphabet of the model is  *)
(* printable ASCII, Latin-1 and the characters beyond that the case        *)
(* mappings of these lead to, with four more that have a case mapping into *)
(* ASCII or Latin-1; outside the alphabet the operators have no value.     *)
(***************************************************************************)
Ascii ==
    {" ", "!", "\"", "#", "$", "%", "&", "'", "(", ")", "*", "+", ",", "-",
     ".", "/", "0", "1", "2", "3", "4", "5", "6", "7", "8", "9", ":", ";",
     "<", "=", ">", "?", "@", "A", "B", "C", "D", "E", "F", "G", "H", "I",
     "J", "K", "L", "M", "N", "O", "P", "Q", "R", "S", "T", "U", "V", "W",
     "X", "Y", "Z", "[", "\\", "]", "^", "_", "U+0060", "a", "b", "c", "d", "e",
     "f", "g", "h", "i", "j", "k", "l", "m", "n", "o", "p", "q", "r", "s",
     "t", "u", "v", "w", "x", "y", "z", "{", "|", "}", "~"}

Latin1 ==
    {"¡", "¢", "£", "¤", "¥", "¦", "§", "¨", "©", "ª", "«", "¬", "®", "¯",
     "°", "±", "²", "³", "´", "µ", "¶", "·", "¸", "¹", "º", "»", "¼", "½",
     "¾", "¿", "À", "Á", "Â", "Ã", "Ä", "Å", "Æ", "Ç", "È", "É", "Ê", "Ë",
     "Ì", "Í", "Î", "Ï", "Ð", "Ñ", "Ò", "Ó", "Ô", "Õ", "Ö", "×", "Ø", "Ù",
     "Ú", "Û", "Ü", "Ý", "Þ", "ß", "à", "á", "â", "ã", "ä", "å", "æ", "ç",
     "è", "é", "ê", "ë", "ì", "í", "î", "ï", "ð", "ñ", "ò", "ó", "ô", "õ",
     "ö", "÷", "ø", "ù", "ú", "û", "ü", "ý", "þ", "ÿ"}

Named ==
    {"U+0130", "U+0131", "U+0178", "U+017F", "U+0307", "U+039C", "U+03BC",
     "U+1E9E", "U+212A", "U+212B"}

HasLower ==
    <<"A", "B", "C", "D", "E", "F", "G", "H", "I", "J", "K", "L", "M", "N",
      "O", "P", "Q", "R", "S", "T", "U", "V", "W", "X", "Y", "Z", "À", "Á",
      "Â", "Ã", "Ä", "Å", "Æ", "Ç", "È", "É", "Ê", "Ë", "Ì", "Í", "Î", "Ï",
      "Ð", "Ñ", "Ò", "Ó", "Ô", "Õ", "Ö", "Ø", "Ù", "Ú", "Û", "Ü", "Ý", "Þ",
      "U+0130", "U+0178", "U+039C", "U+1E9E", "U+212A", "U+212B">>

LowerOf ==
    <<<<"a">>, <<"b">>, <<"c">>, <<"d">>, <<"e">>, <<"f">>, <<"g">>, <<"h">>,
      <<"i">>, <<"j">>, <<"k">>, <<"l">>, <<"m">>, <<"n">>, <<"o">>, <<"p">>,
      <<"q">>, <<"r">>, <<"s">>, <<"t">>, <<"u">>, <<"v">>, <<"w">>, <<"x">>,
      <<"y">>, <<"z">>, <<"à">>, <<"á">>, <<"â">>, <<"ã">>, <<"ä">>, <<"å">>,
      <<"æ">>, <<"ç">>, <<"è">>, <<"é">>, <<"ê">>, <<"ë">>, <<"ì">>, <<"í">>,
      <<"î">>, <<"ï">>, <<"ð">>, <<"ñ">>, <<"ò">>, <<"ó">>, <<"ô">>, <<"õ">>,
      <<"ö">>, <<"ø">>, <<"ù">>, <<"ú">>, <<"û">>, <<"ü">>, <<"ý">>, <<"þ">>,
      <<"i", "U+0307">>, <<"ÿ">>, <<"U+03BC">>, <<"ß">>, <<"k">>, <<"å">>>>

HasUpper ==
    <<"a", "b", "c", "d", "e", "f", "g", "h", "i", "j", "k", "l", "m", "n",
      "o", "p", "q", "r", "s", "t", "u", "v", "w", "x", "y", "z", "µ", "ß",
      "à", "á", "â", "ã", "ä", "å", "æ", "ç", "è", "é", "ê", "ë", "ì", "í",
      "î", "ï", "ð", "ñ", "ò", "ó", "ô", "õ", "ö", "ø", "ù", "ú", "û", "ü",
      "ý", "þ", "ÿ", "U+0131", "U+017F", "U+03BC">>

UpperOf ==
    <<<<"A">>, <<"B">>, <<"C">>, <<"D">>, <<"E">>, <<"F">>, <<"G">>, <<"H">>,
      <<"I">>, <<"J">>, <<"K">>, <<"L">>, <<"M">>, <<"N">>, <<"O">>, <<"P">>,
      <<"Q">>, <<"R">>, <<"S">>, <<"T">>, <<"U">>, <<"V">>, <<"W">>, <<"X">>,
      <<"Y">>, <<"Z">>, <<"U+039C">>, <<"S", "S">>, <<"À">>, <<"Á">>,
      <<"Â">>, <<"Ã">>, <<"Ä">>, <<"Å">>, <<"Æ">>, <<"Ç">>, <<"È">>, <<"É">>,
      <<"Ê">>, <<"Ë">>, <<"Ì">>, <<"Í">>, <<"Î">>, <<"Ï">>, <<"Ð">>, <<"Ñ">>,
      <<"Ò">>, <<"Ó">>, <<"Ô">>, <<"Õ">>, <<"Ö">>, <<"Ø">>, <<"Ù">>, <<"Ú">>,
      <<"Û">>, <<"Ü">>, <<"Ý">>, <<"Þ">>, <<"U+0178">>, <<"I">>, <<"S">>,
      <<"U+039C">>>>

Chars == Ascii \cup Latin1 \cup Named

\* c.lower() and c.upper() of one character, as strings: the upper case of "ß" has
\* two characters, the lower case of U+0130 has two.
LowerMapping ==
    [c \in Chars |->
        IF \E k \in DOMAIN HasLower : HasLower[k] = c
        THEN LowerOf[CHOOSE k \in DOMAIN HasLower : HasLower[k] = c]
        ELSE <<c>>]
LowerChar(c) == LowerMapping[c]

UpperMapping ==
    [c \in Chars |->
        IF \E k \in DOMAIN HasUpper : HasUpper[k] = c
        THEN UpperOf[CHOOSE k \in DOMAIN HasUpper : HasUpper[k] = c]
        ELSE <<c>>]
UpperChar(c) == UpperMapping[c]

\* The strings of a sequence joined.
RECURSIVE concat(_)
concat(parts) == IF parts = << >> THEN << >> ELSE Head(parts) \o concat(Tail(parts))

lower(s) == concat([i \in DOMAIN s |-> LowerChar(s[i])])
upper(s) == concat([i \in DOMAIN s |-> UpperChar(s[i])])

\* for x in v: the items of a list, the characters of a str, the keys of a dict;
\* anything else is not iterable.  A key is a str: one character, or one of the
\* names the service knows.
KeyText(k) ==
    CASE k \in Chars -> <<k>>
      [] k = "features" -> <<"f","e","a","t","u","r","e","s">>
      [] k = "properties" -> <<"p","r","o","p","e","r","t","i","e","s">>
      [] k = "id" -> <<"i","d">>
      [] k = "onset" -> <<"o","n","s","e","t">>
      [] k = "expires" -> <<"e","x","p","i","r","e","s">>
      [] k = "severity" -> <<"s","e","v","e","r","i","t","y">>
      [] k = "urgency" -> <<"u","r","g","e","n","c","y">>
      [] k = "certainty" -> <<"c","e","r","t","a","i","n","t","y">>
      [] k = "affectedZones" -> <<"a","f","f","e","c","t","e","d","Z","o","n","e","s">>
      [] k = "county" -> <<"c","o","u","n","t","y">>
      [] k = "forecastZone" -> <<"f","o","r","e","c","a","s","t","Z","o","n","e">>

\* The keys of a dict as iteration yields them: strings, in the order of insertion.
KeysOf(v) == [i \in DOMAIN v.keys |-> Str(KeyText(v.keys[i]))]

iterate(v) ==
    CASE v.t = "list" -> Return(v.items)
      [] v.t = "str" -> Return([i \in DOMAIN v.s |-> Str(<<v.s[i]>>)])
      [] v.t = "dict" -> Return(KeysOf(v))
      [] v.t \in {"none", "bool", "num"} -> Raise("TypeError")

(***************************************************************************)
(* The three enumerations, in declaration order (auto() numbers from 1).   *)
(***************************************************************************)
AlertSeverity == <<"UNKNOWN", "MINOR", "MODERATE", "SEVERE", "EXTREME">>
AlertUrgency == <<"UNKNOWN", "FUTURE", "EXPECTED", "IMMEDIATE">>
AlertCertainty == <<"UNKNOWN", "UNLIKELY", "POSSIBLE", "LIKELY", "OBSERVED">>

Members(enum) == {enum[i] : i \in DOMAIN enum}

EnumOf(cls) ==
    CASE cls = "AlertSeverity" -> AlertSeverity
      [] cls = "AlertUrgency" -> AlertUrgency
      [] cls = "AlertCertainty" -> AlertCertainty

EnumClasses == {"AlertSeverity", "AlertUrgency", "AlertCertainty"}

\* The mapping tables of the three from_string methods, keyed by lower-case names.
SeverityMapping ==
    Dict(<<<<<<"u","n","k","n","o","w","n">>, "UNKNOWN">>,
           <<<<"m","i","n","o","r">>, "MINOR">>,
           <<<<"m","o","d","e","r","a","t","e">>, "MODERATE">>,
           <<<<"s","e","v","e","r","e">>, "SEVERE">>,
           <<<<"e","x","t","r","e","m","e">>, "EXTREME">>>>)

UrgencyMapping ==
    Dict(<<<<<<"u","n","k","n","o","w","n">>, "UNKNOWN">>,
           <<<<"f","u","t","u","r","e">>, "FUTURE">>,
           <<<<"e","x","p","e","c","t","e","d">>, "EXPECTED">>,
           <<<<"i","m","m","e","d","i","a","t","e">>, "IMMEDIATE">>>>)

CertaintyMapping ==
    Dict(<<<<<<"u","n","k","n","o","w","n">>, "UNKNOWN">>,
           <<<<"u","n","l","i","k","e","l","y">>, "UNLIKELY">>,
           <<<<"p","o","s","s","i","b","l","e">>, "POSSIBLE">>,
           <<<<"l","i","k","e","l","y">>, "LIKELY">>,
           <<<<"o","b","s","e","r","v","e","d">>, "OBSERVED">>>>)

MappingOf(cls) ==
    CASE cls = "AlertSeverity" -> SeverityMapping
      [] cls = "AlertUrgency" -> UrgencyMapping
      [] cls = "AlertCertainty" -> CertaintyMapping

\* from_string without the .lower() call: a case-sensitive lookup.
from_string_case_sensitive(cls, value) ==
    IF ~IsStr(value)
    THEN Raise("AttributeError")
    ELSE Return(DictGet(MappingOf(cls), value.s, "UNKNOWN"))

\* cls.from_string(value): mapping.get(value.lower(), cls.UNKNOWN), mapping being
\* the dict literal of the class.  value.lower() on a value that is not a str
\* raises AttributeError.
from_string(cls, value) ==
    IF ~IsStr(value)
    THEN Raise("AttributeError")
    ELSE Return(DictGet(MappingOf(cls), lower(value.s), "UNKNOWN"))

(***************************************************************************)
(* The WeatherAlert dataclass.  The free-text fields (event, headline,     *)
(* description, instruction) are copied through unchanged by every         *)
(* operation and carry no behaviour; they are not represented.             *)
(***************************************************************************)
WeatherAlert(id, same_codes, severity, urgency, certainty, onset, expires) ==
    [id |-> id, same_codes |-> same_codes, severity |-> severity,
     urgency |-> urgency, certainty |-> certainty, onset |-> onset,
     expires |-> expires]


(***************************************************************************)
(* datetime and timedelta                                                  *)
(***************************************************************************)
\* timedelta(hours=h)
Hours(h) == [s |-> h * 3600, us |-> 0]

Aware(wall, off) == [wall |-> wall, us |-> 0, off |-> off]
Naive(wall) == [wall |-> wall, us |-> 0]
HasTzinfo(d) == "off" \in DOMAIN d

\* A point in time: whole seconds and microseconds since the epoch of the clock.
\* a > b for two of them.
Later(a, b) == a.s > b.s \/ (a.s = b.s /\ a.us > b.us)

\* The reading t of the clock as a point in time.
ClockInstant(t) == [s |-> t * 3600, us |-> 0]

\* d.astimezone(timezone.utc) of an aware datetime: the wall clock less the offset.
astimezone_utc(d) ==
    IF d.us >= d.off.us
    THEN [s |-> d.wall * 3600 - d.off.s, us |-> d.us - d.off.us]
    ELSE [s |-> d.wall * 3600 - d.off.s - 1, us |-> d.us - d.off.us + 1000000]
\* d.replace(tzinfo=timezone.utc) of a naive datetime.
replace_tzinfo_utc(d) == [s |-> d.wall * 3600, us |-> d.us]

\* is_expired with >= in place of >.
is_expired_inclusive(alert, current_time_utc) ==
    LET expires_utc == IF HasTzinfo(alert.expires)
                       THEN astimezone_utc(alert.expires)
                       ELSE replace_tzinfo_utc(alert.expires)
    IN  ~Later(expires_utc, ClockInstant(current_time_utc))

\* WeatherAlert.is_expired, with the clock reading made explicit.
is_expired(alert, current_time_utc) ==
    LET expires_utc == IF HasTzinfo(alert.expires)
                       THEN astimezone_utc(alert.expires)
                       ELSE replace_tzinfo_utc(alert.expires)
    IN  Later(ClockInstant(current_time_utc), expires_utc)

(***************************************************************************)
(* importance_score                                                        *)
(***************************************************************************)
severity_score ==
    [m \in Members(AlertSeverity) |->
        CASE m = "UNKNOWN" -> 0 [] m = "MINOR" -> 1 [] m = "MODERATE" -> 2
          [] m = "SEVERE" -> 3 [] m = "EXTREME" -> 4]

urgency_score ==
    [m \in Members(AlertUrgency) |->
        CASE m = "UNKNOWN" -> 0 [] m = "FUTURE" -> 1 [] m = "EXPECTED" -> 2
          [] m = "IMMEDIATE" -> 3]

certainty_score ==
    [m \in Members(AlertCertainty) |->
        CASE m = "UNKNOWN" -> 0 [] m = "UNLIKELY" -> 1 [] m = "POSSIBLE" -> 2
          [] m = "LIKELY" -> 3 [] m = "OBSERVED" -> 4]

\* importance_score without the certainty bonus term.
importance_score_no_bonus(alert) ==
    severity_score[alert.severity] * 100 +
    urgency_score[alert.urgency] * 10 +
    certainty_score[alert.certainty]

\* importance_score with the two bonus values exchanged.
importance_score_swapped_bonus(alert) ==
    severity_score[alert.severity] * 100 +
    urgency_score[alert.urgency] * 10 +
    certainty_score[alert.certainty] +
    (IF alert.certainty = "OBSERVED" THEN 50
     ELSE IF alert.certainty = "LIKELY" THEN 100 ELSE 0)

\* WeatherAlert.importance_score
importance_score(alert) ==
    severity_score[alert.severity] * 100 +
    urgency_score[alert.urgency] * 10 +
    certainty_score[alert.certainty] +
    (IF alert.certainty = "OBSERVED" THEN 100
     ELSE IF alert.certainty = "LIKELY" THEN 50 ELSE 0)

(***************************************************************************)
(* Strings of the service.  In a timestamp the date and the time of day to *)
(* the second count as one character: "T2" is the nineteen characters of   *)
(* a date-time at hour 2 of the clock with minute and second 00; what      *)
(* follows is spelled out, so "T2Z" is <<"T2", "Z">> and "T1+01:00" is     *)
(* <<"T1", "+", "0", "1", ":", "0", "0">>.                                 *)
(***************************************************************************)
\* a in b, for strings
IsSubstring(a, b) ==
    \E i \in 0..(Len(b) - Len(a)) : SubSeq(b, i + 1, i + Len(a)) = a

\* s.lstrip('0')
RECURSIVE lstrip0(_)
lstrip0(s) == IF s # << >> /\ Head(s) = "0" THEN lstrip0(Tail(s)) ELSE s

\* s.split("/")[-1]
RECURSIVE last_segment(_)
last_segment(s) ==
    IF \E i \in DOMAIN s : s[i] = "/"
    THEN last_segment(Tail(s))
    ELSE s

\* date_str.replace("Z", "+00:00")
replace_Z(s) ==
    concat([i \in DOMAIN s |->
               IF s[i] = "Z" THEN <<"+", "0", "0", ":", "0", "0">> ELSE <<s[i]>>])

WallClock ==
    [d \in {"T0", "T1", "T2", "T3", "T4"} |->
        CASE d = "T0" -> 0 [] d = "T1" -> 1 [] d = "T2" -> 2 [] d = "T3" -> 3
          [] d = "T4" -> 4]

DecimalDigits == {"0", "1", "2", "3", "4", "5", "6", "7", "8", "9"}
IsDigit(c) == c \in DecimalDigits
DigitValue(c) == CASE c = "0" -> 0 [] c = "1" -> 1 [] c = "2" -> 2 [] c = "3" -> 3
                   [] c = "4" -> 4 [] c = "5" -> 5 [] c = "6" -> 6 [] c = "7" -> 7
                   [] c = "8" -> 8 [] c = "9" -> 9

\* The UTF-8 encoding the parser of fromisoformat reads: an ASCII character is one
\* byte, itself; any other character is two or three bytes, none of them a digit,
\* a separator or a zone sign.
utf8_char(c) ==
    CASE c \in Ascii -> <<c>>
      [] c \in Latin1 \cup {"U+0130", "U+0131", "U+0178", "U+017F", "U+0307",
                            "U+039C", "U+03BC"} -> <<"byte", "byte">>
      [] c \in {"U+1E9E", "U+212A", "U+212B"} -> <<"byte", "byte", "byte">>
utf8(s) == concat([i \in DOMAIN s |-> utf8_char(s[i])])

\* The byte at position p of a NUL-terminated buffer.
byte_at(s, p) == IF p <= Len(s) THEN s[p] ELSE "NUL"

\* parse_digits: the number the n bytes from p on spell, -1 when one of them is
\* not a digit.
RECURSIVE parse_digits(_, _, _)
parse_digits(s, p, n) ==
    IF n = 0 THEN 0
    ELSE IF ~IsDigit(byte_at(s, p + n - 1)) THEN -1
    ELSE LET front == parse_digits(s, p, n - 1)
         IN  IF front = -1 THEN -1 ELSE front * 10 + DigitValue(s[p + n - 1])

RECURSIVE skip_digits(_, _)
skip_digits(s, p) == IF IsDigit(byte_at(s, p)) THEN skip_digits(s, p + 1) ELSE p

correction == <<100000, 10000, 1000, 100, 10, 1>>

\* The fractional part of parse_hh_mm_ss_ff: up to six digits of the region that
\* ends before p_end, further digits skipped; rv is 1 when the buffer goes on.
parse_fraction(s, p, p_end, vals) ==
    LET to_parse == IF p_end - p >= 6 THEN 6 ELSE p_end - p
        microsecond == parse_digits(s, p, to_parse)
    IN  IF microsecond = -1 THEN [rv |-> -3]
        ELSE [rv |-> IF byte_at(s, skip_digits(s, p + to_parse)) # "NUL" THEN 1 ELSE 0,
              vals |-> vals, us |-> microsecond * correction[to_parse]]

\* parse_hh_mm_ss_ff of CPython 3.11 from component i on (0 hour, 1 minute,
\* 2 second): HH[:?MM[:?SS[(.|,)ffffff]]] in the region from p to before p_end.
\* rv is 0 at the end of the buffer, 1 when the buffer goes on, negative on error.
RECURSIVE parse_hh_mm_ss_ff(_, _, _, _, _, _)

\* The loop body after component i was read: v is the number its two digits
\* spell (-1 when they are not digits), vals the components with v among them, c
\* the byte that follows, sep whether the components are separated by ":".
after_component(s, p, p_end, i, v, vals, c, sep) ==
    IF v = -1 THEN [rv |-> -3]
    ELSE IF p + 3 >= p_end
    THEN [rv |-> IF c # "NUL" THEN 1 ELSE 0, vals |-> vals, us |-> 0]
    ELSE IF sep /\ c = ":"
    THEN parse_hh_mm_ss_ff(s, p + 3, p_end, i + 1, vals, sep)
    ELSE IF c \in {".", ","} THEN parse_fraction(s, p + 3, p_end, vals)
    ELSE IF ~sep THEN parse_hh_mm_ss_ff(s, p + 2, p_end, i + 1, vals, sep)
    ELSE [rv |-> -4]

next_component(s, p, p_end, i, v, vals, has_separator) ==
    after_component(s, p, p_end, i, v, [vals EXCEPT ![i + 1] = v], byte_at(s, p + 2),
                    IF i = 0 THEN byte_at(s, p + 2) = ":" ELSE has_separator)

parse_hh_mm_ss_ff(s, p, p_end, i, vals, has_separator) ==
    IF i = 3 THEN parse_fraction(s, p, p_end, vals)
    ELSE next_component(s, p, p_end, i, parse_digits(s, p, 2), vals, has_separator)

\* The timezone of a parsed offset: UTC when its whole seconds are zero, else
\* timezone(timedelta(seconds, microseconds)), which raises ValueError unless the
\* offset is strictly between -24 and 24 hours.
timezone_of(sign, vals, us) ==
    LET seconds == vals[1] * 3600 + vals[2] * 60 + vals[3]
    IN  IF seconds = 0 THEN Return([s |-> 0, us |-> 0])
        ELSE IF seconds > 86399 THEN Raise("ValueError")
        ELSE IF sign = 1 THEN Return([s |-> seconds, us |-> us])
        ELSE IF us = 0 THEN Return([s |-> -seconds, us |-> 0])
        ELSE Return([s |-> -seconds - 1, us |-> 1000000 - us])

\* The position of the zone in the buffer of a time: that of the first "Z", "+"
\* or "-", the end of the buffer when there is none.
tzinfo_pos(buf) ==
    LET found == {k \in DOMAIN buf : buf[k] \in {"Z", "+", "-"}}
    IN  IF found = {} THEN Len(buf) + 1
        ELSE CHOOSE k \in found : \A j \in found : k <= j

\* The datetime of wall clock hour built from the parsed time and the parsed
\* offset tz, the zone starting at position pos of buf.
combine(hour, buf, pos, time, tz) ==
    LET zone == timezone_of(IF buf[pos] = "-" THEN -1 ELSE 1, tz.vals, tz.us)
    IN  IF time.rv < 0 THEN Raise("ValueError")
        ELSE IF pos > Len(buf)
        THEN IF time.rv = 1 THEN Raise("ValueError")
             ELSE Return([Naive(hour) EXCEPT !.us = time.us])
        ELSE IF buf[pos] = "Z"
        THEN IF pos < Len(buf) THEN Raise("ValueError")
             ELSE Return([Aware(hour, Hours(0)) EXCEPT !.us = time.us])
        ELSE IF tz.rv # 0 THEN Raise("ValueError")
        ELSE IF zone.kind = "raise" THEN zone
        ELSE Return([Aware(hour, zone.val) EXCEPT !.us = time.us])

\* The time part of buf, whose zone starts at pos, and the offset after pos.
parse_time_and_zone(hour, buf, pos) ==
    combine(hour, buf, pos,
            parse_hh_mm_ss_ff(buf, 1, pos, 0, <<0, 0, 0>>, TRUE),
            parse_hh_mm_ss_ff(buf, pos + 1, Len(buf) + 1, 0, <<0, 0, 0>>, TRUE))

parse_time_buffer(hour, buf) == parse_time_and_zone(hour, buf, tzinfo_pos(buf))

\* parse_isoformat_time and the construction of the result, for the time of day
\* hour:00:00 followed by tail: the zone starts at the first "Z", "+" or "-".
parse_isoformat_time(hour, tail) ==
    parse_time_buffer(hour, <<"0", "0", ":", "0", "0", ":", "0", "0">> \o utf8(tail))

\* datetime.fromisoformat(s) of Python 3.11.  A string that does not start with a
\* digit, or is shorter than seven bytes, raises ValueError; a date-time with what
\* follows it is parsed as above.
fromisoformat(s) ==
    CASE s = << >> -> Raise("ValueError")
      [] s # << >> /\ s[1] \in Chars /\ ~IsDigit(s[1]) -> Raise("ValueError")
      [] s # << >> /\ IsDigit(s[1]) /\ (\A i \in DOMAIN s : s[i] \in Chars)
            /\ Len(utf8(s)) < 7 -> Raise("ValueError")
      [] s # << >> /\ s[1] \in DOMAIN WallClock /\ (\A i \in 2..Len(s) : s[i] \in Chars) ->
            parse_isoformat_time(WallClock[s[1]], Tail(s))

\* except (ValueError, TypeError): return None.
except_ValueError(r) == IF r.kind = "return" THEN r ELSE Return(None)

\* _parse_date: None for a false value (None, ""), the parsed datetime for a valid
\* string, None when fromisoformat raises ValueError.  date_str.replace on a true
\* value that is not a str raises AttributeError, which the except clause
\* (ValueError, TypeError) does not catch.
_parse_date(date_str) ==
    IF ~truthy(date_str) THEN Return(None)
    ELSE IF ~IsStr(date_str) THEN Raise("AttributeError")
    ELSE except_ValueError(fromisoformat(replace_Z(date_str.s)))

(***************************************************************************)
(* Normalization.  An API response body is whatever JSON value the         *)
(* response decodes to; the service expects a dict with an optional        *)
(* "features" list of dicts with an optional "properties" dict.            *)
(***************************************************************************)
EmptyDict == Dict(<< >>)
EmptyList == List(<< >>)
EmptyStr == Str(<< >>)

\* The construction of one WeatherAlert from a feature's properties (the part of the
\* loop body after the expiry check): Raise if a from_string call raises.
make_alert(properties, same_code, onset, expires) ==
    LET sev == from_string("AlertSeverity", DictGet(properties, "severity", EmptyStr))
        urg == from_string("AlertUrgency", DictGet(properties, "urgency", EmptyStr))
        cer == from_string("AlertCertainty", DictGet(properties, "certainty", EmptyStr))
    IN  IF sev.kind = "raise" THEN sev
        ELSE IF urg.kind = "raise" THEN urg
        ELSE IF cer.kind = "raise" THEN cer
        ELSE Return(WeatherAlert(DictGet(properties, "id", EmptyStr), <<same_code>>,
                                 sev.val, urg.val, cer.val, onset, expires))

\* The end of an iteration that reached the construction of the alert: the
\* exception of the construction, or the alert appended.
appended(made) ==
    IF made.kind = "raise" THEN made ELSE [kind |-> "append", alert |-> made.val]

\* The rest of an iteration of either loop from "Parse dates" on: skip (continue),
\* append an alert, or raise; properties.get("onset") raises when properties is
\* not a dict, _parse_date on a true value that is not a str, onset first.
parse_properties(properties, same_code) ==
    IF ~IsDict(properties)
    THEN DictGet(properties, "onset", None)
    ELSE LET onset == _parse_date(DictGet(properties, "onset", None))
             expires == _parse_date(DictGet(properties, "expires", None))
         IN  IF onset.kind = "raise" THEN onset
             ELSE IF expires.kind = "raise" THEN expires
             ELSE IF IsNone(expires.val)
             THEN [kind |-> "skip"]
             ELSE appended(make_alert(properties, same_code, onset.val, expires.val))

\* One iteration of the loop of _parse_alerts; feature.get raises when the feature
\* is not a dict.
parse_feature(feature, same_code) ==
    IF ~IsDict(feature)
    THEN DictGet(feature, "properties", EmptyDict)
    ELSE parse_properties(DictGet(feature, "properties", EmptyDict), same_code)

\* The list same_code_formats built for one feature.
same_code_formats(same_code) ==
    <<same_code, upper(same_code), lower(same_code)>> \o
    (IF Len(same_code) = 6
     THEN LET state_code == SubSeq(same_code, 1, 2)
              zone_code == SubSeq(same_code, 3, 6)
          IN  << state_code \o <<"Z">> \o lstrip0(zone_code),
                 state_code \o <<"C">> \o lstrip0(zone_code),
                 state_code,
                 zone_code,
                 lstrip0(zone_code) >>
     ELSE << >>)

\* The list zone_ids built for one feature: the last "/"-segment of every affected
\* zone.  properties.get raises when properties is not a dict, the for statement
\* when "affectedZones" is not iterable, zone.split when a zone is not a str.
zone_ids_of(properties) ==
    IF ~IsDict(properties)
    THEN DictGet(properties, "affectedZones", EmptyList)
    ELSE LET affected_zones == iterate(DictGet(properties, "affectedZones", EmptyList))
         IN  IF affected_zones.kind = "raise" THEN affected_zones
             ELSE IF \E i \in DOMAIN affected_zones.val : ~IsStr(affected_zones.val[i])
             THEN Raise("AttributeError")
             ELSE Return([i \in DOMAIN affected_zones.val |->
                             last_segment(affected_zones.val[i].s)])

\* The relevance test of _parse_alerts_from_main_endpoint: some format is a
\* substring of some zone id, or some zone id is a substring of some format.
zone_match(properties, same_code) ==
    LET zone_ids == zone_ids_of(properties)
        formats == same_code_formats(same_code)
    IN  IF zone_ids.kind = "raise" THEN zone_ids
        ELSE Return(\/ \E f \in DOMAIN formats, z \in DOMAIN zone_ids.val :
                          IsSubstring(formats[f], zone_ids.val[z])
                    \/ \E f \in DOMAIN formats, z \in DOMAIN zone_ids.val :
                          IsSubstring(zone_ids.val[z], formats[f]))

\* parse_main_feature without the relevance test.
parse_main_feature_unfiltered(feature, same_code) == parse_feature(feature, same_code)

\* One iteration of the loop of _parse_alerts_from_main_endpoint.  feature.get
\* raises when the feature is not a dict; an error of the relevance test ends the
\* iteration.
parse_main_feature(feature, same_code) ==
    IF ~IsDict(feature)
    THEN DictGet(feature, "properties", EmptyDict)
    ELSE LET properties == DictGet(feature, "properties", EmptyDict)
             relevant == zone_match(properties, same_code)
         IN  IF relevant.kind = "raise" THEN relevant
             ELSE IF ~relevant.val THEN [kind |-> "skip"]
             ELSE parse_properties(properties, same_code)

\* The loop over data.get("features", []), from feature i on, with the alerts
\* appended so far; main selects the per-feature step.
RECURSIVE parse_loop(_, _, _, _, _)
after_feature(step, features, i, alerts, same_code, main) ==
    CASE step.kind = "raise" -> step
      [] step.kind = "skip" -> parse_loop(features, i + 1, alerts, same_code, main)
      [] step.kind = "append" ->
            parse_loop(features, i + 1, Append(alerts, step.alert), same_code, main)

parse_loop(features, i, alerts, same_code, main) ==
    IF i > Len(features)
    THEN Return(alerts)
    ELSE after_feature(IF main THEN parse_main_feature(features[i], same_code)
                       ELSE parse_feature(features[i], same_code),
                       features, i, alerts, same_code, main)

\* The features the for statement of either parser runs over: data.get raises when
\* the decoded body is not a dict, the for statement when "features" is not
\* iterable.
features_of(data) ==
    IF ~IsDict(data)
    THEN DictGet(data, "features", EmptyList)
    ELSE iterate(DictGet(data, "features", EmptyList))

\* The for statement over the features: the error of reaching them, or the loop.
for_features(features, same_code, main) ==
    IF features.kind = "raise" THEN features
    ELSE parse_loop(features.val, 1, << >>, same_code, main)

_parse_alerts(data, same_code) == for_features(features_of(data), same_code, FALSE)

_parse_alerts_from_main_endpoint(data, same_code) ==
    for_features(features_of(data), same_code, TRUE)

(***************************************************************************)
(* Inputs of the alert-model operations.                                   *)
(***************************************************************************)
Offsets ==
    {Hours(-1), Hours(0), Hours(1), [s |-> 1800, us |-> 0], [s |-> -3601, us |-> 500000]}
Datetimes ==
    {Aware(w, o) : w \in Times, o \in Offsets}
    \cup {Naive(w) : w \in Times}
    \cup {[Naive(w) EXCEPT !.us = 500000] : w \in Times}

NameKeys == DOMAIN SeverityMapping.d \cup DOMAIN UrgencyMapping.d \cup DOMAIN CertaintyMapping.d
OtherWords == {<< >>, <<"s","e","v","e","r">>, <<"m","i","n","o","r"," ">>,
               <<"n","o","n","e">>, <<"s","e","v","e","r","e","!">>}
\* Words with letters beyond ASCII: the Kelvin sign (its lower case is "k"), the
\* long s (a lower-case letter whose upper case is "S"), the dotted capital I (its
\* lower case is two characters), and letters that are in no name.
UnicodeWords == {<<"L","I","U+212A","E","L","Y">>,
                 <<"u","n","l","i","U+212A","e","l","y">>,
                 <<"U+017F","e","v","e","r","e">>,
                 <<"M","U+0130","N","O","R">>,
                 <<"s","t","r","a","ß","e">>,
                 <<"C","A","F","É">>}
CaseVariants(w) ==
    {concat([i \in DOMAIN w |-> IF i \in m THEN UpperChar(w[i]) ELSE <<w[i]>>]) :
        m \in SUBSET DOMAIN w}
EnumInputs == UNION {CaseVariants(w) : w \in NameKeys \cup OtherWords} \cup UnicodeWords

ModelAlerts ==
    {WeatherAlert(1, <<"Test">>, s, u, c, None, Aware(MaxTime, Hours(0))) :
        s \in Members(AlertSeverity), u \in Members(AlertUrgency),
        c \in Members(AlertCertainty)}

(***************************************************************************)
(* Operations of the alert model.  A call starts with its arguments in     *)
(* args (pc = "call") and the operation named by args.op computes ret.     *)
(***************************************************************************)
FromStringCalls ==
    {[op |-> "from_string", cls |-> cls, value |-> Str(value)] :
        cls \in EnumClasses, value \in EnumInputs}

IsExpiredCalls ==
    {[op |-> "is_expired",
      alert |-> WeatherAlert(1, <<"Test">>, "MINOR", "EXPECTED", "LIKELY", None, e)] :
        e \in Datetimes}

ImportanceScoreCalls ==
    {[op |-> "importance_score", alert |-> a] : a \in ModelAlerts}

InitAlert ==
    /\ now \in Times
    /\ pc = "call"
    /\ args \in FromStringCalls \cup IsExpiredCalls \cup ImportanceScoreCalls
    /\ (args.op # "is_expired" => now = 0)
    /\ locals = << >>
    /\ ret = NoOutcome
    /\ reqlog = << >>

CallFromString ==
    /\ pc = "call"
    /\ args.op = "from_string"
    /\ pc' = "done"
    /\ ret' = from_string(args.cls, args.value)
    /\ UNCHANGED <<now, args, locals, reqlog>>

CallIsExpired ==
    /\ pc = "call"
    /\ args.op = "is_expired"
    /\ pc' = "done"
    /\ ret' = Return(is_expired(args.alert, now))
    /\ UNCHANGED <<now, args, locals, reqlog>>

CallImportanceScore ==
    /\ pc = "call"
    /\ args.op = "importance_score"
    /\ pc' = "done"
    /\ ret' = Return(importance_score(args.alert))
    /\ UNCHANGED <<now, args, locals, reqlog>>

NextAlert == CallFromString \/ CallIsExpired \/ CallImportanceScore

SpecAlert == InitAlert /\ [][NextAlert]_vars

(***************************************************************************)
(* Inputs of the normalizer: response bodies of at most MaxFeatures        *)
(* features.  An optional key is given as the set of its values: {} when   *)
(* the key is absent, {v} when it is present with value v.                 *)
(***************************************************************************)
Opt(key, S) == IF S = {} THEN << >> ELSE <<<<key, CHOOSE v \in S : TRUE>>>>

Digit == <<"1", "2", "3", "4", "5", "6">>

s_Severe == <<"S","e","v","e","r","e">>
s_Immediate == <<"I","m","m","e","d","i","a","t","e">>
s_Observed == <<"O","b","s","e","r","v","e","d">>
s_bogus == <<"b","o","g","u","s">>

c_045019 == <<"0","4","5","0","1","9">>
c_AL == <<"A","L">>

url_prefix == <<"w","/","z","/">>
url_SCZ045 == Str(url_prefix \o <<"S","C","Z","0","4","5">>)
url_ALZ001 == Str(url_prefix \o <<"A","L","Z","0","0","1">>)

\* "T2Z", and timestamps with a numeric offset.
T1Z == Str(<<"T1", "Z">>)
T2Z == Str(<<"T2", "Z">>)
T1_plus_0100 == Str(<<"T1", "+", "0", "1", ":", "0", "0">>)
T3_plus_02 == Str(<<"T3", "+", "0", "2">>)

ExpiresInputs ==
    { {}, {None}, {EmptyStr}, {Str(<<"s","o","o","n">>)},
      {T2Z}, {T1_plus_0100}, {T3_plus_02}, {Str(<<"T3">>)} }

\* severity, urgency, certainty as sent: all three recognised, or one of them
\* missing, null or unrecognised.
EnumsRecognised ==
    [severity |-> {Str(s_Severe)}, urgency |-> {Str(s_Immediate)},
     certainty |-> {Str(s_Observed)}]

EnumInputs3 ==
    {EnumsRecognised}
    \cup {[EnumsRecognised EXCEPT ![f] = v] :
            f \in {"severity", "urgency", "certainty"},
            v \in { {}, {None}, {Str(s_bogus)} }}

ZonesInputs ==
    { {}, {List(<<url_SCZ045>>)}, {List(<<url_ALZ001>>)},
      {List(<<url_ALZ001, url_SCZ045>>)} }

\* The properties of a feature; "onset" is sent as null unless en says otherwise.
Properties(e, en, z, id) ==
    LET sent == [k \in {"id", "expires", "onset", "severity", "urgency", "certainty",
                        "affectedZones"} |->
                    CASE k = "id" -> id
                      [] k = "expires" -> e
                      [] k = "onset" -> IF "onset" \in DOMAIN en THEN en.onset ELSE {None}
                      [] k = "severity" -> en.severity
                      [] k = "urgency" -> en.urgency
                      [] k = "certainty" -> en.certainty
                      [] k = "affectedZones" -> z]
        order == <<"id", "expires", "onset", "severity", "urgency", "certainty",
                   "affectedZones">>
        present(k) == sent[k] # {}
        item(k) == <<k, CHOOSE v \in sent[k] : TRUE>>
    IN  Dict([i \in DOMAIN SelectSeq(order, present) |-> item(SelectSeq(order, present)[i])])

\* Feature bodies before ids are given: the properties as a function of the id.
FeatureShapes(E, EN, Z) ==
    {[e |-> e, en |-> en, z |-> z, props |-> "dict"] : e \in E, en \in EN, z \in Z}
    \cup {[props |-> "missing"], [props |-> "null"], [props |-> "no feature"]}

\* The feature of a shape: a dict with its "properties" a dict, missing, null, a
\* string or a list; or a null, a string or a list in place of the feature.
Feature(shape, i) ==
    CASE shape.props = "dict" ->
            Dict(<<<<"properties", Properties(shape.e, shape.en, shape.z, {Str(<<Digit[i]>>)})>>>>)
      [] shape.props = "missing" -> EmptyDict
      [] shape.props = "null" -> Dict(<<<<"properties", None>>>>)
      [] shape.props = "str" -> Dict(<<<<"properties", Str(<<"x">>)>>>>)
      [] shape.props = "list" -> Dict(<<<<"properties", EmptyList>>>>)
      [] shape.props = "no feature" -> None
      [] shape.props = "str feature" -> Str(<<"x">>)
      [] shape.props = "list feature" -> EmptyList

\* The body whose features have the shapes b[1], b[2], ...; the i-th has id i.
Body(b) == Dict(<<<<"features", List([i \in DOMAIN b |-> Feature(b[i], i)])>>>>)

\* Every expiry input with recognised enums, and every enum input with a valid and
\* with a missing expiry.
ShapesWithZones(Z) ==
    FeatureShapes(ExpiresInputs, {EnumsRecognised}, Z)
    \cup FeatureShapes({{}, {T2Z}}, EnumInputs3, Z)

\* Features with a value of another JSON type than the service expects: the
\* feature or its properties a string or a list, a timestamp a number or a list.
OnsetNumber ==
    [severity |-> {Str(s_Severe)}, urgency |-> {Str(s_Immediate)},
     certainty |-> {Str(s_Observed)}, onset |-> {Num(5)}]

IllTypedShapes(Z) ==
    {[props |-> "str"], [props |-> "list"], [props |-> "str feature"],
     [props |-> "list feature"]}
    \cup {[e |-> e, en |-> EnumsRecognised, z |-> z, props |-> "dict"] :
            e \in {{Num(5)}, {Num(0)}, {EmptyList}, {Bool(TRUE)}}, z \in Z}
    \cup {[e |-> e, en |-> OnsetNumber, z |-> z, props |-> "dict"] :
            e \in {{}, {T2Z}}, z \in Z}

\* "affectedZones" of another type than a list of strings.
IllTypedZones ==
    { {None}, {Num(1)}, {Str(<<"S","C","Z","0","4","5">>)}, {Str(<<"x">>)},
      {List(<<Num(1)>>)}, {List(<<url_SCZ045, None>>)},
      {Dict(<<<<"0", None>>>>)}, {Dict(<<<<"1", None>>, <<"0", None>>>>)}, {EmptyDict} }

\* Bodies of another type than a dict with a list of features.
IllTypedBodies ==
    {None, Str(<<"x">>), EmptyStr, EmptyList, List(<<EmptyDict>>), Num(1), Bool(FALSE),
     Dict(<<<<"features", None>>>>), Dict(<<<<"features", Num(0)>>>>),
     Dict(<<<<"features", Str(<<"a", "b">>)>>>>), Dict(<<<<"features", EmptyStr>>>>),
     Dict(<<<<"features", EmptyDict>>>>),
     Dict(<<<<"features", Dict(<<<<"properties", EmptyDict>>>>)>>>>)}

ParseShapes == ShapesWithZones({{}}) \cup IllTypedShapes({{}})

ParseMainShapes ==
    ShapesWithZones({{List(<<url_SCZ045>>)}})
    \cup FeatureShapes({{}, {T2Z}}, {EnumsRecognised}, ZonesInputs \cup IllTypedZones)
    \cup IllTypedShapes({{List(<<url_SCZ045>>)}})

InitParse ==
    /\ now = 0
    /\ pc = "call"
    /\ \/ \E k \in 0..MaxFeatures : \E b \in [1..k -> ParseShapes] :
            args = [op |-> "_parse_alerts", data |-> Body(b), same_code |-> c_045019]
       \/ \E k \in 0..MaxFeatures : \E b \in [1..k -> ParseMainShapes] :
          \E c \in {c_045019, c_AL} :
            args = [op |-> "_parse_alerts_from_main_endpoint", data |-> Body(b),
                    same_code |-> c]
       \/ \E op \in {"_parse_alerts", "_parse_alerts_from_main_endpoint"} :
          \E data \in {EmptyDict} \cup IllTypedBodies :
            args = [op |-> op, data |-> data, same_code |-> c_045019]
    /\ locals = << >>
    /\ ret = NoOutcome
    /\ reqlog = << >>

CallParseAlerts ==
    /\ pc = "call"
    /\ args.op = "_parse_alerts"
    /\ pc' = "done"
    /\ ret' = _parse_alerts(args.data, args.same_code)
    /\ UNCHANGED <<now, args, locals, reqlog>>

CallParseAlertsFromMainEndpoint ==
    /\ pc = "call"
    /\ args.op = "_parse_alerts_from_main_endpoint"
    /\ pc' = "done"
    /\ ret' = _parse_alerts_from_main_endpoint(args.data, args.same_code)
    /\ UNCHANGED <<now, args, locals, reqlog>>

NextParse == CallParseAlerts \/ CallParseAlertsFromMainEndpoint

SpecParse == InitParse /\ [][NextParse]_vars

(***************************************************************************)
(* The SAME-code path of the service.  A URL is a string; its fixed parts  *)
(* count as one character each.                                            *)
(***************************************************************************)
BASE_URL == <<"https://api.weather.gov">>
ALERTS_ENDPOINT == <<"/alerts/active">>

\* The list endpoints_to_try built by _fetch_alerts_for_same_code.
endpoints_to_try(same_code) ==
    << BASE_URL \o ALERTS_ENDPOINT,
       BASE_URL \o ALERTS_ENDPOINT \o <<"/area/">> \o same_code,
       BASE_URL \o ALERTS_ENDPOINT \o <<"/zone/">> \o same_code,
       BASE_URL \o ALERTS_ENDPOINT \o <<"/county/">> \o same_code >> \o
    (IF Len(same_code) = 6
     THEN LET state_code == SubSeq(same_code, 1, 2)
              zone_code == SubSeq(same_code, 3, 6)
              formatted_zone == state_code \o <<"Z">> \o lstrip0(zone_code)
              formatted_county == state_code \o <<"C">> \o lstrip0(zone_code)
          IN  << BASE_URL \o ALERTS_ENDPOINT \o <<"/zone/">> \o formatted_zone,
                 BASE_URL \o ALERTS_ENDPOINT \o <<"/county/">> \o formatted_county >>
     ELSE << >>)

\* What one GET gives the caller: requests.get, raise_for_status or response.json
\* raises exc, or the decoded body is returned.
ErrorResponse(exc) == [status |-> "error", exc |-> exc]
OkResponse(body) == [status |-> "ok", body |-> body]

\* The entry of the log of GETs for the request of url answered by resp.
Logged(url, resp) ==
    [url |-> url, status |-> resp.status,
     exc |-> IF resp.status = "error" THEN resp.exc ELSE "none"]

\* An exception object: its type and the request during which it was raised.
Exception(exc, url) == [exc |-> exc, url |-> url]

\* The frame of one _fetch_alerts_for_same_code call: the next endpoint to try is
\* endpoints[i]; data is the body decoded last.
FetchFrame(same_code) ==
    [same_code |-> same_code, endpoints |-> endpoints_to_try(same_code), i |-> 1,
     data |-> None, last_error |-> None]

\* The body of the try block for one endpoint, given the response to the GET:
\* the alerts returned, or the exception caught.
caught_at(url, outcome) ==
    IF outcome.kind = "raise" THEN Raise(Exception(outcome.err, url)) ELSE outcome

try_endpoint(url, resp, same_code) ==
    IF resp.status = "error"
    THEN Raise(Exception(resp.exc, url))
    ELSE caught_at(url, IF url = BASE_URL \o ALERTS_ENDPOINT
                        THEN _parse_alerts_from_main_endpoint(resp.body, same_code)
                        ELSE _parse_alerts(resp.body, same_code))

\* One iteration of the loop over endpoints_to_try, and the code after the loop
\* when the list is exhausted: the frame after it, and the call's outcome if it
\* ended.
\* end_of_iteration keeping the first error caught instead of the last.
end_of_iteration_first_error(frame, tried) ==
    IF tried.kind = "return"
    THEN [frame |-> frame, outcome |-> tried]
    ELSE IF frame.i + 1 > Len(frame.endpoints)
    THEN [frame |-> [frame EXCEPT !.i = frame.i + 1],
          outcome |-> Raise(IF IsNone(frame.last_error) THEN tried.err
                            ELSE frame.last_error)]
    ELSE [frame |-> [frame EXCEPT !.i = frame.i + 1,
                                  !.last_error = IF IsNone(@) THEN tried.err ELSE @],
          outcome |-> NoOutcome]

\* end_of_iteration returning an empty list when the list is exhausted.
end_of_iteration_swallow(frame, tried) ==
    IF tried.kind = "return"
    THEN [frame |-> frame, outcome |-> tried]
    ELSE IF frame.i + 1 > Len(frame.endpoints)
    THEN [frame |-> [frame EXCEPT !.i = frame.i + 1, !.last_error = tried.err],
          outcome |-> Return(<< >>)]
    ELSE [frame |-> [frame EXCEPT !.i = frame.i + 1, !.last_error = tried.err],
          outcome |-> NoOutcome]

\* end_of_iteration re-attempting the endpoint after the first failure of the call.
end_of_iteration_retry_once(frame, tried) ==
    IF tried.kind = "return"
    THEN [frame |-> frame, outcome |-> tried]
    ELSE IF IsNone(frame.last_error)
    THEN [frame |-> [frame EXCEPT !.last_error = tried.err], outcome |-> NoOutcome]
    ELSE IF frame.i + 1 > Len(frame.endpoints)
    THEN [frame |-> [frame EXCEPT !.i = frame.i + 1, !.last_error = tried.err],
          outcome |-> Raise(tried.err)]
    ELSE [frame |-> [frame EXCEPT !.i = frame.i + 1, !.last_error = tried.err],
          outcome |-> NoOutcome]

end_of_iteration(frame, tried) ==
    IF tried.kind = "return"
    THEN [frame |-> frame, outcome |-> tried]
    ELSE IF frame.i + 1 > Len(frame.endpoints)
    THEN [frame |-> [frame EXCEPT !.i = frame.i + 1, !.last_error = tried.err],
          outcome |-> Raise(tried.err)]
    ELSE [frame |-> [frame EXCEPT !.i = frame.i + 1, !.last_error = tried.err],
          outcome |-> NoOutcome]

fetch_iteration(frame, resp) ==
    end_of_iteration(
        IF resp.status = "ok" THEN [frame EXCEPT !.data = resp.body] ELSE frame,
        try_endpoint(frame.endpoints[frame.i], resp, frame.same_code))

\* One iteration of the selection loop of get_most_important_alerts: result maps
\* each code to None or to the alert chosen so far.  The codes of the alert are
\* visited in turn; each touches only its own entry of result.
select_step_keep_expired(result, alert, same_codes, t) ==
    [code \in DOMAIN result |->
        IF /\ \E k \in DOMAIN alert.same_codes : alert.same_codes[k] = code
           /\ \E k \in DOMAIN same_codes : same_codes[k] = code
           /\ \/ IsNone(result[code])
              \/ importance_score(alert) > importance_score(result[code])
        THEN alert
        ELSE result[code]]

\* select_step overwriting the rank fields of the alert kept so far instead of
\* putting the more important alert in its place.
select_step_in_place(result, alert, same_codes, t) ==
    IF is_expired(alert, t)
    THEN result
    ELSE [code \in DOMAIN result |->
            IF /\ \E k \in DOMAIN alert.same_codes : alert.same_codes[k] = code
               /\ \E k \in DOMAIN same_codes : same_codes[k] = code
               /\ \/ IsNone(result[code])
                  \/ importance_score(alert) > importance_score(result[code])
            THEN IF IsNone(result[code])
                 THEN alert
                 ELSE [result[code] EXCEPT !.severity = alert.severity,
                                           !.urgency = alert.urgency,
                                           !.certainty = alert.certainty]
            ELSE result[code]]

select_step(result, alert, same_codes, t) ==
    IF is_expired(alert, t)
    THEN result
    ELSE [code \in DOMAIN result |->
            IF /\ \E k \in DOMAIN alert.same_codes : alert.same_codes[k] = code
               /\ \E k \in DOMAIN same_codes : same_codes[k] = code
               /\ \/ IsNone(result[code])
                  \/ importance_score(alert) > importance_score(result[code])
            THEN alert
            ELSE result[code]]

\* The selection loop from alert i on; the is_expired of alert i reads the clock
\* at ts[i].
RECURSIVE select_per_code(_, _, _, _, _)
select_per_code(all_alerts, i, result, same_codes, ts) ==
    IF i > Len(all_alerts)
    THEN result
    ELSE select_per_code(all_alerts, i + 1,
                         select_step(result, all_alerts[i], same_codes, ts[i]),
                         same_codes, ts)

\* get_most_important_alerts, given the list get_alerts_for_same_codes returned and
\* the clock readings of the loop, one for each alert.
most_important_per_code(all_alerts, same_codes, ts) ==
    select_per_code(all_alerts, 1,
        [code \in {same_codes[k] : k \in DOMAIN same_codes} |-> None], same_codes, ts)

\* The number of is_expired calls made once the fetch for same_codes[loc.ci] ended
\* with outcome: one for each fetched alert when that was the last code of a
\* get_most_important_alerts call, none otherwise.
expiry_checks_after_fetch(op, same_codes, loc, outcome) ==
    IF op = "get_most_important_alerts" /\ loc.ci + 1 > Len(same_codes)
    THEN Len(loc.all_alerts) + (IF outcome.kind = "return" THEN Len(outcome.val) ELSE 0)
    ELSE 0

\* after_fetch with the exception of a code's fetch leaving the call.
after_fetch_propagating(op, same_codes, loc, outcome, ts) ==
    LET all_alerts == IF outcome.kind = "return"
                      THEN loc.all_alerts \o outcome.val
                      ELSE loc.all_alerts
        ci == loc.ci + 1
    IN  IF outcome.kind = "raise"
        THEN [pc |-> "done", locals |-> loc, ret |-> outcome]
        ELSE IF ci <= Len(same_codes)
        THEN [pc |-> "fetch",
              locals |-> [all_alerts |-> all_alerts, ci |-> ci,
                          fetch |-> FetchFrame(same_codes[ci]), reads |-> << >>],
              ret |-> NoOutcome]
        ELSE [pc |-> "done",
              locals |-> [loc EXCEPT !.all_alerts = all_alerts, !.ci = ci,
                                     !.reads = ts],
              ret |-> IF op = "get_most_important_alerts"
                      THEN Return(most_important_per_code(all_alerts, same_codes, ts))
                      ELSE Return(all_alerts)]

\* get_alerts_for_same_codes / get_most_important_alerts after the fetch for
\* same_codes[ci] ended with outcome: alerts are appended, an exception is logged
\* and dropped; then the next code's fetch starts or the call returns, for
\* get_most_important_alerts after the selection loop, whose clock readings are ts
\* (kept in reads).
after_fetch(op, same_codes, loc, outcome, ts) ==
    LET all_alerts == IF outcome.kind = "return"
                      THEN loc.all_alerts \o outcome.val
                      ELSE loc.all_alerts
        ci == loc.ci + 1
    IN  IF ci <= Len(same_codes)
        THEN [pc |-> "fetch",
              locals |-> [all_alerts |-> all_alerts, ci |-> ci,
                          fetch |-> FetchFrame(same_codes[ci]), reads |-> << >>],
              ret |-> NoOutcome]
        ELSE [pc |-> "done",
              locals |-> [loc EXCEPT !.all_alerts = all_alerts, !.ci = ci,
                                     !.reads = ts],
              ret |-> IF op = "get_most_important_alerts"
                      THEN Return(most_important_per_code(all_alerts, same_codes, ts))
                      ELSE Return(all_alerts)]

SameCodeOps == {"get_alerts_for_same_codes", "get_most_important_alerts"}

\* Entry of _fetch_alerts_for_same_code, up to its first GET.
CallFetch ==
    /\ pc = "call"
    /\ args.op = "_fetch_alerts_for_same_code"
    /\ pc' = "fetch"
    /\ locals' = [fetch |-> FetchFrame(args.same_code)]
    /\ UNCHANGED <<now, args, ret, reqlog>>

\* Entry of get_alerts_for_same_codes and get_most_important_alerts, up to the
\* first GET (or to the return, for an empty list of codes).
CallSameCodes ==
    /\ pc = "call"
    /\ args.op \in SameCodeOps
    /\ \E after \in {after_fetch(args.op, args.same_codes,
                                   [all_alerts |-> << >>, ci |-> 0, reads |-> << >>],
                                   Return(<< >>), << >>)} :
          /\ pc' = after.pc
          /\ locals' = after.locals
          /\ ret' = after.ret
    /\ UNCHANGED <<now, args, reqlog>>

\* The GET of the endpoint the running fetch is at is answered by resp; the fetch
\* goes on to the next endpoint or ends, and its caller continues: to the next
\* code's fetch, or through its selection loop (one clock reading for each alert)
\* to its return.
Request(resp) ==
    /\ pc = "fetch"
    /\ reqlog' = Append(reqlog, Logged(locals.fetch.endpoints[locals.fetch.i], resp))
    /\ \E it \in {fetch_iteration(locals.fetch, resp)} :
          IF it.outcome.kind = "none"
          THEN /\ pc' = "fetch"
               /\ locals' = [locals EXCEPT !.fetch = it.frame]
               /\ ret' = ret
               /\ now' = now
          ELSE IF args.op = "_fetch_alerts_for_same_code"
          THEN /\ pc' = "done"
               /\ locals' = [locals EXCEPT !.fetch = it.frame]
               /\ ret' = it.outcome
               /\ now' = now
          ELSE \E ts \in ClockReads(now, expiry_checks_after_fetch(
                                            args.op, args.same_codes, locals,
                                            it.outcome)) :
               \E after \in {after_fetch(args.op, args.same_codes,
                                         [locals EXCEPT !.fetch = it.frame],
                                         it.outcome, ts)} :
                  /\ pc' = after.pc
                  /\ locals' = after.locals
                  /\ ret' = after.ret
                  /\ now' = ClockAfter(now, ts)
    /\ UNCHANGED args

RequestFails(excs) == \E e \in excs : Request(ErrorResponse(e))

RequestAnswered(shapes) ==
    \E k \in 0..MaxFeatures : \E b \in [1..k -> shapes] : Request(OkResponse(Body(b)))

\* response.json() returns None: the body is the JSON text null.
RequestAnsweredNull == Request(OkResponse(None))

(***************************************************************************)
(* SpecFetch: one _fetch_alerts_for_same_code call against every course of *)
(* responses.                                                              *)
(***************************************************************************)
Zones2 == {List(<<url_SCZ045, url_ALZ001>>)}
ValidExpires == {T2Z}

FetchShapes ==
    { [e |-> ValidExpires, en |-> EnumsRecognised, z |-> Zones2, props |-> "dict"],
      [e |-> ValidExpires, en |-> [EnumsRecognised EXCEPT !.severity = {None}],
       z |-> Zones2, props |-> "dict"],
      [e |-> {}, en |-> EnumsRecognised, z |-> Zones2, props |-> "dict"],
      [e |-> ValidExpires, en |-> EnumsRecognised, z |-> {}, props |-> "dict"] }

FetchExcs == {"ConnectionError", "HTTPError"}

InitFetch ==
    /\ now = 0
    /\ pc = "call"
    /\ \E c \in {c_045019, c_AL} :
          args = [op |-> "_fetch_alerts_for_same_code", same_code |-> c]
    /\ locals = << >>
    /\ ret = NoOutcome
    /\ reqlog = << >>

NextFetch ==
    \/ CallFetch
    \/ RequestFails(FetchExcs)
    \/ RequestAnswered(FetchShapes)
    \/ RequestAnsweredNull

SpecFetch == InitFetch /\ [][NextFetch]_vars

\* Every GET is answered: requests.get returns or raises.
SpecFetchFair == SpecFetch /\ WF_vars(NextFetch)

(***************************************************************************)
(* SpecCodes: get_alerts_for_same_codes and get_most_important_alerts for  *)
(* every list of at most MaxCodes codes, at every time, against every      *)
(* course of responses.                                                    *)
(***************************************************************************)
s_Minor == <<"M","i","n","o","r">>
s_Expected == <<"E","x","p","e","c","t","e","d">>
s_Likely == <<"L","i","k","e","l","y">>

EnumsMinor ==
    [severity |-> {Str(s_Minor)}, urgency |-> {Str(s_Expected)},
     certainty |-> {Str(s_Likely)}]

\* A high-scoring alert that expires early and a low-scoring one that expires late.
RankShapes ==
    { [e |-> {T1Z}, en |-> EnumsRecognised, z |-> Zones2, props |-> "dict"],
      [e |-> {T2Z}, en |-> EnumsMinor, z |-> Zones2, props |-> "dict"] }

CodesExcs == {"HTTPError"}

InitCodes ==
    /\ now \in Times
    /\ pc = "call"
    /\ \E op \in SameCodeOps : \E n \in 0..MaxCodes :
       \E cs \in [1..n -> {c_045019, c_AL}] :
          args = [op |-> op, same_codes |-> cs]
    /\ locals = << >>
    /\ ret = NoOutcome
    /\ reqlog = << >>

NextCodes == CallSameCodes \/ RequestFails(CodesExcs) \/ RequestAnswered(RankShapes)

SpecCodes == InitCodes /\ [][NextCodes]_vars

(***************************************************************************)
(* The location path of WeatherService: get_coordinates,                   *)
(* get_alerts_for_coordinates, get_alerts_for_location and                 *)
(* get_most_important_alerts_for_location.                                 *)
(***************************************************************************)
\* A float, known by the text str() gives for it.
Float(r) == [t |-> "float", repr |-> r]
format_float(x) == x.repr

\* f"{city}, {state}"
location_of(city, state) == city \o <<", ">> \o state

\* What geocoder.arcgis(location) gives: a result with ok set and the coordinates,
\* or a result with ok unset.
GeoFound(lat, lng) == [ok |-> TRUE, lat |-> lat, lng |-> lng]
GeoNotFound == [ok |-> FALSE, lat |-> None, lng |-> None]

\* The invocations of the geocoder one call of get_coordinates makes, the geocoder
\* answering g; calls are the earlier calls made on the service.
\* geocoder_calls of a resolver that remembers every location it resolved and
\* never lets one go.
geocoder_calls_once_per_location(calls, city, state, g) ==
    IF \E i \in DOMAIN calls :
          calls[i].key = location_of(city, state) /\ calls[i].outcome.kind = "return"
    THEN << >>
    ELSE <<[url |-> <<"geocoder.arcgis">> \o location_of(city, state),
            status |-> IF g.ok THEN "ok" ELSE "error"]>>

\* geocoder.arcgis(location) is called on every call, whatever was resolved
\* before: the service keeps nothing between calls.
geocoder_calls(calls, city, state, g) ==
    <<[url |-> <<"geocoder.arcgis">> \o location_of(city, state),
       status |-> IF g.ok THEN "ok" ELSE "error"]>>

\* get_coordinates, given the geocoder's result g.
get_coordinates(city, state, g) ==
    IF ~g.ok
    THEN Raise([exc |-> "ValueError",
                msg |-> <<"Could not determine coordinates for ">>
                        \o location_of(city, state)])
    ELSE Return(<<g.lat, g.lng>>)

points_url(latitude, longitude) ==
    BASE_URL \o <<"/points/", format_float(latitude), ",", format_float(longitude)>>

zone_url(id) == BASE_URL \o ALERTS_ENDPOINT \o <<"/zone/">> \o id

\* not v
falsy(v) == ~truthy(v)

\* get_alerts_for_coordinates from the response to the points lookup up to the
\* county query: the call's outcome if it ends here, and the two identifiers as far
\* as they were assigned (None for one that was not).
\* resolve_ids where a missing reference is replaced by the one that is present.
resolve_ids_fallback(properties, url) ==
    IF ~IsDict(properties)
    THEN [outcome |-> Raise(Exception("AttributeError", url)),
          county_id |-> None, zone_id |-> None]
    ELSE LET county == DictGet(properties, "county", None)
             zone == DictGet(properties, "forecastZone", None)
             county_or_zone == IF falsy(county) THEN zone ELSE county
             zone_or_county == IF falsy(zone) THEN county ELSE zone
         IN  IF falsy(county) /\ falsy(zone)
             THEN [outcome |-> Return(<< >>), county_id |-> None, zone_id |-> None]
             ELSE IF ~IsStr(county_or_zone)
             THEN [outcome |-> Raise(Exception("AttributeError", url)),
                   county_id |-> None, zone_id |-> None]
             ELSE IF ~IsStr(zone_or_county)
             THEN [outcome |-> Raise(Exception("AttributeError", url)),
                   county_id |-> Str(last_segment(county_or_zone.s)), zone_id |-> None]
             ELSE [outcome |-> NoOutcome,
                   county_id |-> Str(last_segment(county_or_zone.s)),
                   zone_id |-> Str(last_segment(zone_or_county.s))]

\* properties.get raises when properties is not a dict; county.split raises when
\* county is not a str, before county_id is assigned; zone.split raises when zone
\* is not a str, after county_id was assigned.
resolve_ids(properties, url) ==
    IF ~IsDict(properties)
    THEN [outcome |-> Raise(Exception("AttributeError", url)),
          county_id |-> None, zone_id |-> None]
    ELSE LET county == DictGet(properties, "county", None)
             zone == DictGet(properties, "forecastZone", None)
         IN  IF falsy(county) \/ falsy(zone)
             THEN [outcome |-> Return(<< >>), county_id |-> None, zone_id |-> None]
             ELSE IF ~IsStr(county)
             THEN [outcome |-> Raise(Exception("AttributeError", url)),
                   county_id |-> None, zone_id |-> None]
             ELSE IF ~IsStr(zone)
             THEN [outcome |-> Raise(Exception("AttributeError", url)),
                   county_id |-> Str(last_segment(county.s)), zone_id |-> None]
             ELSE [outcome |-> NoOutcome,
                   county_id |-> Str(last_segment(county.s)),
                   zone_id |-> Str(last_segment(zone.s))]

\* points_data.get raises when the decoded body is not a dict; neither identifier
\* is assigned when the call ends before line 334.
after_points(resp, url) ==
    IF resp.status = "error"
    THEN [outcome |-> Raise(Exception(resp.exc, url)),
          county_id |-> None, zone_id |-> None]
    ELSE IF ~IsDict(resp.body)
    THEN [outcome |-> Raise(Exception(
                         DictGet(resp.body, "properties", EmptyDict).err, url)),
          county_id |-> None, zone_id |-> None]
    ELSE resolve_ids(DictGet(resp.body, "properties", EmptyDict), url)

\* county_data / zone_data after the GET: the decoded body, None if the GET raised.
decoded(resp) == IF resp.status = "ok" THEN resp.body ELSE None

\* alerts.extend(more), and an extend that leaves out the alerts whose id is
\* already in the list.
extend_dedup(alerts, more) ==
    alerts \o SelectSeq(more, LAMBDA a : \A k \in DOMAIN alerts : alerts[k].id # a.id)

extend(alerts, more) == alerts \o more

\* One of the two inner try blocks of get_alerts_for_coordinates: the alerts the
\* query adds to the list, none if the GET or the parse raised.
contained(parsed) == IF parsed.kind = "return" THEN parsed.val ELSE << >>

query_alerts(resp, label, id) ==
    IF resp.status = "error"
    THEN << >>
    ELSE contained(_parse_alerts(resp.body, <<label>> \o id))

\* max(active_alerts, key=importance_score) from alert i on: the first alert with
\* the greatest score.
RECURSIVE max_by_score(_, _, _)
max_by_score(alerts, i, best) ==
    IF i > Len(alerts)
    THEN best
    ELSE max_by_score(alerts, i + 1,
                      IF importance_score(alerts[i]) > importance_score(best)
                      THEN alerts[i]
                      ELSE best)

\* [alert for alert in alerts if not alert.is_expired] from alert i on; the
\* is_expired of alert i reads the clock at ts[i].
RECURSIVE not_expired_from(_, _, _)
not_expired_from(alerts, ts, i) ==
    IF i > Len(alerts)
    THEN << >>
    ELSE (IF is_expired(alerts[i], ts[i]) THEN << >> ELSE <<alerts[i]>>)
         \o not_expired_from(alerts, ts, i + 1)

\* The end of get_most_important_alerts_for_location: None for an empty list of
\* active alerts, else its first alert with the greatest score.
first_max(active_alerts) ==
    IF active_alerts = << >>
    THEN None
    ELSE max_by_score(active_alerts, 2, active_alerts[1])

\* get_most_important_alerts_for_location after the fetch, without the expiry filter.
most_important_of_unfiltered(alerts, ts) == first_max(alerts)

\* most_important_of keeping the alert met last among those of the greatest score.
most_important_of_last(alerts, ts) ==
    LET active == not_expired_from(alerts, ts, 1)
    IN  first_max([i \in 1..Len(active) |-> active[Len(active) + 1 - i]])

\* get_most_important_alerts_for_location after the fetch: alerts is the list
\* get_alerts_for_location returned, ts the clock readings of the filter, one for
\* each alert.
most_important_of(alerts, ts) == first_max(not_expired_from(alerts, ts, 1))

LocationOps ==
    {"get_coordinates", "get_alerts_for_coordinates", "get_alerts_for_location",
     "get_most_important_alerts_for_location"}

\* The list get_alerts_for_location returns when get_coordinates or
\* get_alerts_for_coordinates ended with outcome.
alerts_for_location(outcome) == IF outcome.kind = "raise" THEN << >> ELSE outcome.val

\* The end of the running call once get_coordinates raised or
\* get_alerts_for_coordinates ended with outcome: what the operation called returns
\* or raises; ts are the clock readings of the expiry filter.
\* finish_location without the except clause of get_alerts_for_location.
finish_location_propagating(op, outcome, ts) ==
    IF outcome.kind = "raise" \/ op \in {"get_coordinates", "get_alerts_for_coordinates"}
    THEN outcome
    ELSE IF op = "get_alerts_for_location"
    THEN Return(outcome.val)
    ELSE Return(most_important_of(outcome.val, ts))

finish_location(op, outcome, ts) ==
    IF op \in {"get_coordinates", "get_alerts_for_coordinates"}
    THEN outcome
    ELSE IF op = "get_alerts_for_location"
    THEN Return(alerts_for_location(outcome))
    ELSE Return(most_important_of(alerts_for_location(outcome), ts))

(***************************************************************************)
(* The API operation get_weather_alert (api.py).                           *)
(***************************************************************************)
\* The fields the WeatherAlert dataclass declares.
WeatherAlertFields ==
    {"id", "same_codes", "event", "headline", "description", "instruction",
     "severity", "urgency", "certainty", "onset", "expires"}

\* The declared fields that the records of the model carry.
RepresentedFields ==
    {"id", "same_codes", "severity", "urgency", "certainty", "onset", "expires"}

\* The value of a declared free-text field, which the record of the model does not
\* carry: the text the alert was built with.
FreeText(alert, name) == [t |-> "text", field |-> name, of |-> alert.id]

\* alert.<name>: the field's value; AttributeError for a name the dataclass does
\* not have.
getattr(alert, name) ==
    IF name \in RepresentedFields
    THEN Return(alert[name])
    ELSE IF name \in WeatherAlertFields
    THEN Return(FreeText(alert, name))
    ELSE Raise([exc |-> "AttributeError",
                msg |-> <<"'WeatherAlert' object has no attribute ", name>>])

severity_score_map ==
    Dict(<<<<"UNKNOWN", 0>>, <<"MINOR", 1>>, <<"MODERATE", 2>>, <<"SEVERE", 3>>, <<"EXTREME", 4>>>>)

urgency_score_map ==
    Dict(<<<<"UNKNOWN", 0>>, <<"FUTURE", 1>>, <<"EXPECTED", 2>>, <<"IMMEDIATE", 3>>>>)

certainty_score_map ==
    Dict(<<<<"UNKNOWN", 0>>, <<"UNLIKELY", 1>>, <<"POSSIBLE", 2>>, <<"LIKELY", 3>>, <<"OBSERVED", 4>>>>)

\* The three maps with the entries of LIKELY and OBSERVED exchanged in the last.
score_map_swapped(field) ==
    CASE field = "severity" -> severity_score_map
      [] field = "urgency" -> urgency_score_map
      [] field = "certainty" ->
            [certainty_score_map EXCEPT !.d["LIKELY"] = 4, !.d["OBSERVED"] = 3]

score_map(field) ==
    CASE field = "severity" -> severity_score_map
      [] field = "urgency" -> urgency_score_map
      [] field = "certainty" -> certainty_score_map

\* <field>_score_map.get(name, 0)
score_field(field, name) == DictGet(score_map(field), name, 0)

\* alert.expires.astimezone(timezone.utc).strftime('%Y-%m-%d %H:%M:%S UTC'): a naive
\* datetime is read in the local time zone of the process.
strftime_utc(expires, local_offset) ==
    <<IF HasTzinfo(expires) THEN astimezone_utc(expires).s
      ELSE (expires.wall - local_offset) * 3600,
      " UTC">>

\* The three score entries of the dict passed to response.update.
score_fields(alert) ==
    [severity_score |-> score_field("severity", alert.severity),
     urgency_score |-> score_field("urgency", alert.urgency),
     certainty_score |-> score_field("certainty", alert.certainty)]

\* The dict passed to response.update, once alert.nws_headline has been read.
alert_view(alert, nws_headline, local_offset) ==
    IF nws_headline.kind = "raise"
    THEN nws_headline
    ELSE Return([headline |-> getattr(alert, "headline").val,
                 event |-> getattr(alert, "event").val,
                 severity |-> alert.severity,
                 severity_score |-> score_fields(alert).severity_score,
                 urgency |-> alert.urgency,
                 urgency_score |-> score_fields(alert).urgency_score,
                 certainty |-> alert.certainty,
                 certainty_score |-> score_fields(alert).certainty_score,
                 expires |-> strftime_utc(alert.expires, local_offset),
                 description |-> getattr(alert, "description").val,
                 instruction |-> getattr(alert, "instruction").val,
                 nws_headline |-> nws_headline.val])

\* response after the update, or the exception of the update.
updated(response, view) ==
    IF view.kind = "raise" THEN view ELSE Return(view.val @@ response)

\* get_weather_alert from the return of get_most_important_alerts_for_location to
\* the end of the try block.
build_response(city, state, latitude, longitude, alert, local_offset) ==
    IF IsNone(alert)
    THEN Return([city |-> city, state |-> state, latitude |-> latitude,
                 longitude |-> longitude])
    ELSE updated([city |-> city, state |-> state, latitude |-> latitude,
                  longitude |-> longitude],
                 alert_view(alert, getattr(alert, "nws_headline"), local_offset))

\* The exception classes that are ValueError or derive from it.
ValueErrors == {"ValueError", "JSONDecodeError"}

HTTPException(status_code, detail) ==
    [exc |-> "HTTPException", status_code |-> status_code, detail |-> detail]

\* The except clause of get_weather_alert with every exception reported as 404.
api_outcome_all_not_found(outcome) ==
    IF outcome.kind = "raise"
    THEN Raise(HTTPException(404, outcome.err.msg))
    ELSE outcome

\* The except clause of get_weather_alert: a ValueError becomes HTTP 404 with
\* str(e) as detail, any other exception leaves the handler.
api_outcome(outcome) ==
    IF outcome.kind = "raise" /\ outcome.err.exc \in ValueErrors
    THEN Raise(HTTPException(404, outcome.err.msg))
    ELSE outcome

ApiOps == {"get_weather_alert"}

\* The local variables of the location path: the coordinates, the identifiers and
\* the alerts list of get_alerts_for_coordinates, the list get_alerts_for_location
\* returned, and the clock readings of the is_expired calls made on it.
LocationFrame(latitude, longitude) ==
    [latitude |-> latitude, longitude |-> longitude, county_id |-> None,
     zone_id |-> None, points_data |-> None, county_data |-> None,
     zone_data |-> None,
     alerts |-> << >>, fetched |-> << >>, reads |-> << >>]

\* The local variables of get_weather_alert once get_coordinates returned, with those
\* of the get_most_important_alerts_for_location call it makes next.
ApiFrame(latitude, longitude) ==
    [api_latitude |-> latitude, api_longitude |-> longitude,
     latitude |-> None, longitude |-> None, county_id |-> None,
     zone_id |-> None, points_data |-> None, county_data |-> None,
     zone_data |-> None, alerts |-> << >>, fetched |-> << >>, reads |-> << >>]

\* What the operation called returns or raises when its location path ended with
\* outcome.
finish(arguments, loc, outcome, ts) ==
    IF arguments.op \in ApiOps
    THEN api_outcome(build_response(arguments.city, arguments.state,
                                    loc.api_latitude, loc.api_longitude,
                                    most_important_of(alerts_for_location(outcome), ts),
                                    arguments.local_offset))
    ELSE finish_location(arguments.op, outcome, ts)

\* The number of is_expired calls the operation makes once its location path ended
\* with outcome: one for each alert get_alerts_for_location returned.
expiry_checks(op, outcome) ==
    IF op \in {"get_most_important_alerts_for_location"} \cup ApiOps
    THEN Len(alerts_for_location(outcome))
    ELSE 0

Finished(op, loc, outcome) ==
    \E ts \in ClockReads(now, expiry_checks(op, outcome)) :
        /\ pc' = "done"
        /\ locals' = [loc EXCEPT !.fetched = IF op \in {"get_alerts_for_location",
                                                         "get_most_important_alerts_for_location"}
                                                        \cup ApiOps
                                              THEN alerts_for_location(outcome)
                                              ELSE << >>,
                                 !.reads = ts]
        /\ ret' = finish(args, loc, outcome, ts)
        /\ now' = ClockAfter(now, ts)

\* Entry of a location operation, up to its first external call.
CallLocation ==
    /\ pc = "call"
    /\ args.op \in LocationOps
    /\ IF args.op = "get_alerts_for_coordinates"
       THEN /\ pc' = "points"
            /\ locals' = LocationFrame(args.latitude, args.longitude)
       ELSE /\ pc' = "geocode"
            /\ locals' = LocationFrame(None, None)
    /\ UNCHANGED <<now, args, ret, reqlog>>

\* geocoder.arcgis answers with g: get_coordinates returns or raises, and its
\* caller goes on to the points lookup or ends.
Geocode(g) ==
    /\ pc = "geocode"
    /\ reqlog' = Append(reqlog, [url |-> <<"geocoder.arcgis">>
                                         \o location_of(args.city, args.state),
                                 status |-> IF g.ok THEN "ok" ELSE "error"])
    /\ \E coords \in {get_coordinates(args.city, args.state, g)} :
          IF coords.kind = "raise" \/ args.op = "get_coordinates"
          THEN Finished(args.op, locals, coords)
          ELSE /\ pc' = "points"
               /\ locals' = [locals EXCEPT !.latitude = coords.val[1],
                                           !.longitude = coords.val[2]]
               /\ ret' = ret
               /\ now' = now
    /\ UNCHANGED args

\* The points lookup is answered by resp.
Points(resp) ==
    /\ pc = "points"
    /\ \E url \in {points_url(locals.latitude, locals.longitude)} :
          /\ reqlog' = Append(reqlog, Logged(url, resp))
          /\ \E ids \in {after_points(resp, url)} :
                IF ids.outcome.kind = "none"
                THEN /\ pc' = "county"
                     /\ locals' = [locals EXCEPT !.points_data = decoded(resp),
                                                 !.county_id = ids.county_id,
                                                 !.zone_id = ids.zone_id]
                     /\ ret' = ret
                     /\ now' = now
                ELSE Finished(args.op,
                              [locals EXCEPT !.points_data = decoded(resp),
                                             !.county_id = ids.county_id,
                                             !.zone_id = ids.zone_id],
                              ids.outcome)
    /\ UNCHANGED args

\* The county query is answered by resp; the zone query follows.
CountyQuery(resp) ==
    /\ pc = "county"
    /\ reqlog' = Append(reqlog, Logged(zone_url(locals.county_id.s), resp))
    /\ pc' = "zone"
    /\ locals' = [locals EXCEPT
                     !.county_data = decoded(resp),
                     !.alerts = extend(@, query_alerts(resp, "County: ", locals.county_id.s))]
    /\ UNCHANGED <<now, args, ret>>

\* The zone query is answered by resp; get_alerts_for_coordinates returns.
ZoneQuery(resp) ==
    /\ pc = "zone"
    /\ reqlog' = Append(reqlog, Logged(zone_url(locals.zone_id.s), resp))
    /\ \E alerts \in {extend(locals.alerts,
                             query_alerts(resp, "Zone: ", locals.zone_id.s))} :
          Finished(args.op, [locals EXCEPT !.zone_data = decoded(resp),
                                           !.alerts = alerts],
                   Return(alerts))
    /\ UNCHANGED args

\* Entry of get_weather_alert, up to the geocoder call of its get_coordinates.
CallApi ==
    /\ pc = "call"
    /\ args.op \in ApiOps
    /\ pc' = "api_geocode"
    /\ locals' = << >>
    /\ UNCHANGED <<now, args, ret, reqlog>>

\* geocoder.arcgis answers the get_coordinates call of get_weather_alert with g: the
\* handler ends with 404, or calls get_most_important_alerts_for_location.
ApiGeocode(g) ==
    /\ pc = "api_geocode"
    /\ reqlog' = Append(reqlog, [url |-> <<"geocoder.arcgis">>
                                         \o location_of(args.city, args.state),
                                 status |-> IF g.ok THEN "ok" ELSE "error"])
    /\ \E coords \in {get_coordinates(args.city, args.state, g)} :
          IF coords.kind = "raise"
          THEN /\ pc' = "done"
               /\ locals' = locals
               /\ ret' = api_outcome(coords)
          ELSE /\ pc' = "geocode"
               /\ locals' = ApiFrame(coords.val[1], coords.val[2])
               /\ ret' = ret
    /\ UNCHANGED <<now, args>>

(***************************************************************************)
(* SpecLocation: one call of a location operation, at every time, against  *)
(* every answer of the geocoder and of the three GETs.                     *)
(***************************************************************************)
Responses(excs, bodies) ==
    {ErrorResponse(e) : e \in excs} \cup {OkResponse(b) : b \in bodies}

s_Greenville == <<"G","r","e","e","n","v","i","l","l","e">>
s_SC == <<"S","C">>
lat_Greenville == Float("34.85")
lng_Greenville == Float("-82.39")

GeoResults == {GeoFound(lat_Greenville, lng_Greenville), GeoNotFound}

url_SCC045 == Str(<<"w","/","c","/","S","C","C","0","4","5">>)

\* The points lookup's body: null, without properties, with properties null, or with
\* each of the two references absent, null, empty or a URL; and bodies with a value
\* of another JSON type than the service expects.
PointsBodies ==
    {None, EmptyDict, Dict(<<<<"properties", None>>>>)}
    \cup {Dict(<<<<"properties", Dict(Opt("county", c) \o Opt("forecastZone", z))>>>>) :
            c \in { {}, {None}, {EmptyStr}, {url_SCC045} },
            z \in { {}, {None}, {EmptyStr}, {url_SCZ045} }}
    \cup {Str(<<"x">>), EmptyList, Dict(<<<<"properties", Str(<<"x">>)>>>>),
          Dict(<<<<"properties", Dict(<<<<"county", Num(1)>>, <<"forecastZone", url_SCZ045>>>>)>>>>),
          Dict(<<<<"properties", Dict(<<<<"county", Num(0)>>, <<"forecastZone", url_SCZ045>>>>)>>>>),
          Dict(<<<<"properties", Dict(<<<<"county", url_SCC045>>,
                                    <<"forecastZone", List(<<url_SCZ045>>)>>>>)>>>>)}

\* Features of the county and zone queries: a high-scoring alert that expires early,
\* a low-scoring one that expires late, one with a null severity, one without expiry.
LocationShapes ==
    { [e |-> {T1Z}, en |-> EnumsRecognised, z |-> {}, props |-> "dict"],
      [e |-> {T2Z}, en |-> EnumsMinor, z |-> {}, props |-> "dict"],
      [e |-> {T2Z}, en |-> [EnumsRecognised EXCEPT !.severity = {None}],
       z |-> {}, props |-> "dict"],
      [e |-> {}, en |-> EnumsRecognised, z |-> {}, props |-> "dict"] }

\* What the points GET can raise: a transport error, a non-2xx status, a body that
\* is not JSON.
PointsExcs == {"ConnectionError", "HTTPError", "JSONDecodeError"}

InitLocation ==
    /\ now \in Times
    /\ pc = "call"
    /\ \E op \in LocationOps :
          args = IF op = "get_alerts_for_coordinates"
                 THEN [op |-> op, latitude |-> lat_Greenville,
                       longitude |-> lng_Greenville]
                 ELSE [op |-> op, city |-> s_Greenville, state |-> s_SC]
    /\ locals = << >>
    /\ ret = NoOutcome
    /\ reqlog = << >>

AlertsAnswered(shapes) ==
    \/ \E k \in 0..MaxFeatures : \E b \in [1..k -> shapes] :
          \/ CountyQuery(OkResponse(Body(b)))
          \/ ZoneQuery(OkResponse(Body(b)))
    \/ CountyQuery(OkResponse(None))
    \/ ZoneQuery(OkResponse(None))

AlertsFail(excs) ==
    \E e \in excs : CountyQuery(ErrorResponse(e)) \/ ZoneQuery(ErrorResponse(e))

NextLocation ==
    \/ CallLocation
    \/ \E g \in GeoResults : Geocode(g)
    \/ \E resp \in Responses(PointsExcs, PointsBodies) : Points(resp)
    \/ AlertsFail(FetchExcs)
    \/ AlertsAnswered(LocationShapes)

SpecLocation == InitLocation /\ [][NextLocation]_vars

(***************************************************************************)
(* SpecApi: one get_weather_alert request, at every time and in every      *)
(* local time zone, against every answer of the geocoder and of the GETs.  *)
(***************************************************************************)
\* The offsets from UTC of the local time zone of the process, in hours.
LocalOffsets == {-1, 0, 1}

\* Features of the county and zone queries of an API request: as LocationShapes,
\* with an expiry that carries no offset in place of the missing one.
ApiShapes ==
    { [e |-> {T1Z}, en |-> EnumsRecognised, z |-> {}, props |-> "dict"],
      [e |-> {T2Z}, en |-> EnumsMinor, z |-> {}, props |-> "dict"],
      [e |-> {Str(<<"T2">>)}, en |-> EnumsMinor, z |-> {}, props |-> "dict"] }

InitApi ==
    /\ now \in Times
    /\ pc = "call"
    /\ \E o \in LocalOffsets :
          args = [op |-> "get_weather_alert", city |-> s_Greenville, state |-> s_SC,
                  local_offset |-> o]
    /\ locals = << >>
    /\ ret = NoOutcome
    /\ reqlog = << >>

NextApi ==
    \/ CallApi
    \/ \E g \in GeoResults : ApiGeocode(g)
    \/ \E g \in GeoResults : Geocode(g)
    \/ \E resp \in Responses(PointsExcs, PointsBodies) : Points(resp)
    \/ AlertsFail(CodesExcs)
    \/ AlertsAnswered(ApiShapes)

SpecApi == InitApi /\ [][NextApi]_vars

(***************************************************************************)
(* Properties of the alert model (checked under SpecAlert).                *)
(***************************************************************************)
\* Ordinal rank of an enum member: its position in declaration order, from 0.
Rank(enum, m) == (CHOOSE i \in DOMAIN enum : enum[i] = m) - 1

CertaintyBonus(c) == IF c = "OBSERVED" THEN 100 ELSE IF c = "LIKELY" THEN 50 ELSE 0

Scored == pc = "done" /\ args.op = "importance_score"

\* C3: importance_score = severityRank*100 + urgencyRank*10 + certaintyRank +
\* certaintyBonus (100 for OBSERVED, 50 for LIKELY, else 0) for every combination
\* of the three enum values; MINOR/EXPECTED/LIKELY scores 173 and
\* SEVERE/IMMEDIATE/OBSERVED scores 434.
C3_ScoreFormula ==
    Scored =>
        LET a == args.alert IN
        /\ ret = Return(Rank(AlertSeverity, a.severity) * 100
                        + Rank(AlertUrgency, a.urgency) * 10
                        + Rank(AlertCertainty, a.certainty)
                        + CertaintyBonus(a.certainty))
        /\ (a.severity = "MINOR" /\ a.urgency = "EXPECTED" /\ a.certainty = "LIKELY"
                => ret.val = 173)
        /\ (a.severity = "SEVERE" /\ a.urgency = "IMMEDIATE" /\ a.certainty = "OBSERVED"
                => ret.val = 434)

C3_Witness ==
    /\ Scored
    /\ args.alert.severity = "SEVERE"
    /\ args.alert.urgency = "IMMEDIATE"
    /\ args.alert.certainty = "OBSERVED"
    /\ ret = Return(434)

\* C4: importance_score = severityRank*100 + urgencyRank*10 + certaintyRank with no
\* further term, so MINOR/EXPECTED/LIKELY scores 123 and SEVERE/IMMEDIATE/OBSERVED
\* scores 334 (test_importance_score).
C4_ScoreWithoutBonus ==
    Scored =>
        LET a == args.alert IN
        /\ ret = Return(Rank(AlertSeverity, a.severity) * 100
                        + Rank(AlertUrgency, a.urgency) * 10
                        + Rank(AlertCertainty, a.certainty))
        /\ (a.severity = "MINOR" /\ a.urgency = "EXPECTED" /\ a.certainty = "LIKELY"
                => ret.val = 123)
        /\ (a.severity = "SEVERE" /\ a.urgency = "IMMEDIATE" /\ a.certainty = "OBSERVED"
                => ret.val = 334)

\* b agrees with a on two of the three fields and ranks higher in the third.
HigherInOneField(b, a) ==
    \/ /\ b.urgency = a.urgency /\ b.certainty = a.certainty
       /\ Rank(AlertSeverity, b.severity) > Rank(AlertSeverity, a.severity)
    \/ /\ b.severity = a.severity /\ b.certainty = a.certainty
       /\ Rank(AlertUrgency, b.urgency) > Rank(AlertUrgency, a.urgency)
    \/ /\ b.severity = a.severity /\ b.urgency = a.urgency
       /\ Rank(AlertCertainty, b.certainty) > Rank(AlertCertainty, a.certainty)

\* C5: importance_score is strictly monotonic in each of severity, urgency and
\* certainty: an alert that agrees with the scored one on two fields and ranks
\* higher in the third has a strictly higher score.
C5_ScoreMonotonic ==
    Scored =>
        \A b \in ModelAlerts :
            HigherInOneField(b, args.alert) => importance_score(b) > ret.val

C5_Witness ==
    /\ Scored
    /\ args.alert.certainty = "LIKELY"
    /\ \E b \in ModelAlerts :
          /\ HigherInOneField(b, args.alert)
          /\ b.certainty = "OBSERVED"
          /\ importance_score(b) > ret.val

\* The declared (upper-case) name of each enum member.
NameOf(m) ==
    CASE m = "UNKNOWN" -> <<"U","N","K","N","O","W","N">>
      [] m = "MINOR" -> <<"M","I","N","O","R">>
      [] m = "MODERATE" -> <<"M","O","D","E","R","A","T","E">>
      [] m = "SEVERE" -> <<"S","E","V","E","R","E">>
      [] m = "EXTREME" -> <<"E","X","T","R","E","M","E">>
      [] m = "FUTURE" -> <<"F","U","T","U","R","E">>
      [] m = "EXPECTED" -> <<"E","X","P","E","C","T","E","D">>
      [] m = "IMMEDIATE" -> <<"I","M","M","E","D","I","A","T","E">>
      [] m = "UNLIKELY" -> <<"U","N","L","I","K","E","L","Y">>
      [] m = "POSSIBLE" -> <<"P","O","S","S","I","B","L","E">>
      [] m = "LIKELY" -> <<"L","I","K","E","L","Y">>
      [] m = "OBSERVED" -> <<"O","B","S","E","R","V","E","D">>

\* a and b are the same word up to the case of their letters: they are equal
\* once both are put in lower case.
SameIgnoringCase(a, b) == lower(a) = lower(b)

\* C6: from_string of the three enums is total on strings: it returns a member of
\* the enum and never raises; an input equal to a member's name in any letter case
\* (equal to it once both are in lower case) returns that member, every other
\* input returns UNKNOWN.
C6_FromStringTotal ==
    (pc = "done" /\ args.op = "from_string") =>
        LET members == Members(EnumOf(args.cls))
            hits == {m \in members : SameIgnoringCase(args.value.s, NameOf(m))}
        IN  /\ ret.kind = "return"
            /\ ret.val \in members
            /\ \A m \in hits : ret.val = m
            /\ (hits = {} => ret.val = "UNKNOWN")

C6_Witness ==
    /\ pc = "done"
    /\ args.op = "from_string"
    /\ args.cls = "AlertSeverity"
    /\ args.value = Str(<<"S","e","V","e","R","E">>)
    /\ ret = Return("SEVERE")

\* A name written with a letter outside ASCII whose lower case is the name's
\* letter (the Kelvin sign for K) is recognised as well.
C6_WitnessKelvinSign ==
    /\ pc = "done"
    /\ args.op = "from_string"
    /\ args.cls = "AlertCertainty"
    /\ args.value = Str(<<"L","I","U+212A","E","L","Y">>)
    /\ ret = Return("LIKELY")

\* A word whose upper case is a name but whose lower case is not (the long s
\* of U+017F in place of s) is not recognised.
C6_WitnessLongS ==
    /\ pc = "done"
    /\ args.op = "from_string"
    /\ args.cls = "AlertSeverity"
    /\ args.value = Str(<<"U+017F","e","v","e","r","e">>)
    /\ ret = Return("UNKNOWN")

\* The UTC instant an expiry denotes: a naive value is read as UTC.
UtcInstant(d) ==
    LET wall == [s |-> d.wall * 3600, us |-> d.us]
    IN  IF "off" \notin DOMAIN d THEN wall
        ELSE IF wall.us >= d.off.us
        THEN [s |-> wall.s - d.off.s, us |-> wall.us - d.off.us]
        ELSE [s |-> wall.s - d.off.s - 1, us |-> wall.us + 1000000 - d.off.us]

\* C7: is_expired is true iff the current time is strictly greater than expires,
\* both in UTC with a naive expires read as UTC; at equality the alert is not
\* expired.
C7_IsExpiredStrict ==
    (pc = "done" /\ args.op = "is_expired") =>
        LET instant == UtcInstant(args.alert.expires)
        IN  /\ ret.val = TRUE <=> \/ now * 3600 > instant.s
                                  \/ now * 3600 = instant.s /\ 0 > instant.us
            /\ (now * 3600 = instant.s /\ instant.us = 0) => ret = Return(FALSE)

C7_Witness ==
    /\ pc = "done"
    /\ args.op = "is_expired"
    /\ args.alert.expires = Aware(1, Hours(-1))
    /\ now = 2
    /\ ret = Return(FALSE)

(***************************************************************************)
(* Properties of the normalizer (checked under SpecParse).                 *)
(***************************************************************************)
Parsed == pc = "done" /\ args.op \in {"_parse_alerts", "_parse_alerts_from_main_endpoint"}

\* The features of a body, none when it has no list of features; the properties of
\* a feature, empty when it has none.
FeaturesOf(data) ==
    IF IsDict(data) /\ "features" \in DOMAIN data.d /\ data.d["features"].t = "list"
    THEN data.d["features"].items
    ELSE << >>
PropertiesOf(feature) ==
    IF IsDict(feature) /\ "properties" \in DOMAIN feature.d
    THEN feature.d["properties"]
    ELSE EmptyDict

\* A timestamp the API may send: a date-time, alone or followed by Z or by an offset
\* of the form +hh, +hhmm or +hh:mm (or with -).
TwoDigitsBelow(a, b, bound) ==
    /\ IsDigit(a) /\ IsDigit(b)
    /\ DigitValue(a) * 10 + DigitValue(b) < bound
ValidTimestamp(s) ==
    /\ s # << >>
    /\ s[1] \in DOMAIN WallClock
    /\ \/ Len(s) = 1
       \/ Len(s) = 2 /\ s[2] = "Z"
       \/ /\ Len(s) \in {4, 6, 7}
          /\ s[2] \in {"+", "-"}
          /\ TwoDigitsBelow(s[3], s[4], 24)
          /\ Len(s) = 6 => TwoDigitsBelow(s[5], s[6], 60)
          /\ Len(s) = 7 => s[5] = ":" /\ TwoDigitsBelow(s[6], s[7], 60)

HasParsableExpires(feature) ==
    LET p == PropertiesOf(feature)
    IN  /\ IsDict(p)
        /\ "expires" \in DOMAIN p.d
        /\ IsStr(p.d["expires"])
        /\ ValidTimestamp(p.d["expires"].s)

\* The features of the call's batch the parser is to normalize: all of them for a
\* scoped endpoint, those whose zones match the code for the main endpoint.
Relevant(feature) ==
    args.op = "_parse_alerts_from_main_endpoint"
        => zone_match(PropertiesOf(feature), args.same_code) = Return(TRUE)

IdsOf(alerts) == [i \in DOMAIN alerts |-> alerts[i].id]

RECURSIVE ExpectedIds(_)
ExpectedIds(features) ==
    IF features = << >> THEN << >>
    ELSE IF HasParsableExpires(Head(features)) /\ Relevant(Head(features))
         THEN <<DictGet(PropertiesOf(Head(features)), "id", EmptyStr)>>
              \o ExpectedIds(Tail(features))
         ELSE ExpectedIds(Tail(features))

\* C8: a feature whose expires is absent or unparsable never appears in the output;
\* dropping it does not raise, and every other feature of the batch with a parsable
\* expires is still returned, in input order.
C8_MissingExpiryDropped ==
    (/\ Parsed
     /\ \E i \in DOMAIN FeaturesOf(args.data) : ~HasParsableExpires(FeaturesOf(args.data)[i]))
    => /\ ret.kind = "return"
       /\ IdsOf(ret.val) = ExpectedIds(FeaturesOf(args.data))

\* The value the normalizer is to give an enum field: the member whose name the
\* string equals in any letter case, UNKNOWN when the field is missing, null or
\* unrecognised.
ExpectedMember(cls, properties, key) ==
    IF key \in DOMAIN properties.d /\ IsStr(properties.d[key])
       /\ \E m \in Members(EnumOf(cls)) : SameIgnoringCase(properties.d[key].s, NameOf(m))
    THEN CHOOSE m \in Members(EnumOf(cls)) : SameIgnoringCase(properties.d[key].s, NameOf(m))
    ELSE "UNKNOWN"

\* C9: no record's severity, urgency or certainty aborts the batch: every feature
\* to be normalized yields a record, a missing, null or unrecognised field being
\* UNKNOWN in it.
C9_EnumFieldsNeverAbort ==
    Parsed =>
        /\ ret.kind = "return"
        /\ \A i \in DOMAIN FeaturesOf(args.data) :
              LET f == FeaturesOf(args.data)[i]
                  p == PropertiesOf(f)
              IN  (HasParsableExpires(f) /\ Relevant(f)) =>
                    \E j \in DOMAIN ret.val :
                        /\ ret.val[j].id = DictGet(p, "id", EmptyStr)
                        /\ ret.val[j].severity = ExpectedMember("AlertSeverity", p, "severity")
                        /\ ret.val[j].urgency = ExpectedMember("AlertUrgency", p, "urgency")
                        /\ ret.val[j].certainty = ExpectedMember("AlertCertainty", p, "certainty")

(***************************************************************************)
(* Properties of _fetch_alerts_for_same_code (checked under SpecFetch).    *)
(***************************************************************************)
\* The candidate endpoints in the order they are to be tried: the unfiltered active
\* alerts, area, zone and county of the code, then for a 6-character code the zone
\* {state}Z{zone} and the county {state}C{zone}, leading zeros of the zone removed.
CandidateEndpoints(code) ==
    LET active == <<"https://api.weather.gov", "/alerts/active">>
        state == SubSeq(code, 1, 2)
        zone == lstrip0(SubSeq(code, 3, Len(code)))
    IN  <<active, active \o <<"/area/">> \o code, active \o <<"/zone/">> \o code,
          active \o <<"/county/">> \o code>>
        \o (IF Len(code) = 6
            THEN <<active \o <<"/zone/">> \o state \o <<"Z">> \o zone,
                   active \o <<"/county/">> \o state \o <<"C">> \o zone>>
            ELSE << >>)

\* The alerts the normalizer makes of the body an endpoint sent (<< >> if it makes
\* none), the unfiltered endpoint's body being filtered by the code.
ParsedBody(url, body, code) ==
    LET r == IF url = CandidateEndpoints(code)[1]
             THEN _parse_alerts_from_main_endpoint(body, code)
             ELSE _parse_alerts(body, code)
    IN  IF r.kind = "return" THEN r.val ELSE << >>

\* C10: the endpoints are tried in the fixed order; the first endpoint that responds
\* successfully ends the fetch, which returns the parsed result of that response:
\* no endpoint is queried after a success.
C10_FirstSuccessEndsFetch ==
    args.op = "_fetch_alerts_for_same_code" =>
        /\ \A j \in DOMAIN reqlog : reqlog[j].url = CandidateEndpoints(args.same_code)[j]
        /\ \A j \in DOMAIN reqlog :
              reqlog[j].status = "ok" =>
                /\ j = Len(reqlog)
                /\ pc = "done"
                /\ ret = Return(ParsedBody(reqlog[j].url, locals.fetch.data, args.same_code))

(***************************************************************************)
(* Properties of get_most_important_alerts (checked under SpecCodes).      *)
(***************************************************************************)
Range(seq) == {seq[k] : k \in DOMAIN seq}

\* The fetched alerts of a finished get_most_important_alerts call that are not
\* expired and carry code, as positions of the fetched list.
ActiveFor(code) ==
    {i \in DOMAIN locals.all_alerts :
        /\ ~is_expired(locals.all_alerts[i], locals.reads[i])
        /\ code \in Range(locals.all_alerts[i].same_codes)}

\* C2: the mapping get_most_important_alerts returns has exactly the input codes as
\* keys; a code maps to a fetched alert that is not expired, carries the code and has
\* the maximum importance_score among the non-expired fetched alerts carrying it, and
\* to None when there is no such alert.  An alert is non-expired when its is_expired
\* is false at the time the call reads the clock for it.
C2_MostImportantPerCode ==
    (pc = "done" /\ args.op = "get_most_important_alerts") =>
        /\ ret.kind = "return"
        /\ DOMAIN ret.val = Range(args.same_codes)
        /\ \A code \in DOMAIN ret.val :
              IF ActiveFor(code) = {}
              THEN IsNone(ret.val[code])
              ELSE \E i \in ActiveFor(code) :
                      /\ ret.val[code] = locals.all_alerts[i]
                      /\ \A j \in ActiveFor(code) :
                            importance_score(locals.all_alerts[j])
                                <= importance_score(locals.all_alerts[i])

\* A code for which an expired alert scoring higher and a non-expired alert scoring
\* lower were fetched, and the non-expired one was returned.
C2_Witness ==
    /\ pc = "done"
    /\ args.op = "get_most_important_alerts"
    /\ ret.kind = "return"
    /\ \E code \in DOMAIN ret.val : \E i, j \in DOMAIN locals.all_alerts :
          /\ code \in Range(locals.all_alerts[i].same_codes)
          /\ code \in Range(locals.all_alerts[j].same_codes)
          /\ is_expired(locals.all_alerts[i], locals.reads[i])
          /\ ~is_expired(locals.all_alerts[j], locals.reads[j])
          /\ importance_score(locals.all_alerts[i]) > importance_score(locals.all_alerts[j])
          /\ ret.val[code] = locals.all_alerts[j]

\* The clock advanced during the selection loop of get_most_important_alerts: the
\* alert returned for a code was read before its expiry, and a later alert of the
\* code was read after that.
C2_WitnessClockAdvanced ==
    /\ pc = "done"
    /\ args.op = "get_most_important_alerts"
    /\ ret.kind = "return"
    /\ \E code \in DOMAIN ret.val : \E i, j \in DOMAIN locals.reads :
          /\ i < j
          /\ i \in ActiveFor(code)
          /\ ret.val[code] = locals.all_alerts[i]
          /\ code \in Range(locals.all_alerts[j].same_codes)
          /\ locals.reads[i] < locals.reads[j]
          /\ is_expired(locals.all_alerts[i], locals.reads[j])

(***************************************************************************)
(* Properties of get_most_important_alerts_for_location (checked under     *)
(* SpecLocation).                                                          *)
(***************************************************************************)
RankingDone == pc = "done" /\ args.op = "get_most_important_alerts_for_location"

\* The fetched alerts that are not expired, as positions of the fetched list: those
\* whose is_expired is false at the time the call reads the clock for them.
ActiveFetched ==
    {i \in DOMAIN locals.fetched : ~is_expired(locals.fetched[i], locals.reads[i])}

\* C1: get_most_important_alerts_for_location returns None exactly when no fetched
\* alert is non-expired; otherwise it returns a non-expired fetched alert whose
\* importance_score is at least that of every other non-expired fetched alert.  An
\* expired alert is never returned.
C1_MostImportantForLocation ==
    RankingDone =>
        /\ ret.kind = "return"
        /\ IsNone(ret.val) <=> ActiveFetched = {}
        /\ ActiveFetched # {} =>
              \E i \in ActiveFetched :
                 /\ ret.val = locals.fetched[i]
                 /\ \A j \in ActiveFetched :
                       importance_score(locals.fetched[j])
                           <= importance_score(locals.fetched[i])
        /\ \A i \in DOMAIN locals.fetched :
              (\A j \in DOMAIN locals.fetched :
                  locals.fetched[j] = locals.fetched[i] => j \notin ActiveFetched)
                => ret.val # locals.fetched[i]

\* An expired alert with the highest score of the fetched list was passed over for a
\* non-expired alert.
C1_Witness ==
    /\ RankingDone
    /\ ret.kind = "return"
    /\ ~IsNone(ret.val)
    /\ \E i \in DOMAIN locals.fetched :
          /\ is_expired(locals.fetched[i], locals.reads[i])
          /\ importance_score(locals.fetched[i]) > importance_score(ret.val)
          /\ \A j \in DOMAIN locals.fetched :
                importance_score(locals.fetched[j]) <= importance_score(locals.fetched[i])

\* The clock advanced during the expiry filter: the alert returned was read before
\* its expiry, and a later alert was read after that.
C1_WitnessClockAdvanced ==
    /\ RankingDone
    /\ ret.kind = "return"
    /\ \E i \in ActiveFetched : \E j \in DOMAIN locals.fetched :
          /\ i < j
          /\ ret.val = locals.fetched[i]
          /\ locals.reads[i] < locals.reads[j]
          /\ is_expired(locals.fetched[i], locals.reads[j])

(***************************************************************************)
(* Properties of the failing fetch (checked under SpecFetch).              *)
(***************************************************************************)
FetchDone == pc = "done" /\ args.op = "_fetch_alerts_for_same_code"

\* The error the j-th request of the log ended with: the exception of the GET, or
\* for a decoded body the exception of its parse.
ErrorOfRequest(j) ==
    [exc |-> IF reqlog[j].status = "error" THEN reqlog[j].exc ELSE "AttributeError",
     url |-> reqlog[j].url]

\* C11: a _fetch_alerts_for_same_code call none of whose endpoints gave a result
\* raises, and what it raises is the error of the last endpoint tried, after every
\* candidate endpoint was tried.
C11_LastErrorRaised ==
    FetchDone =>
        /\ ret.kind \in {"return", "raise"}
        /\ ret.kind = "raise" =>
              /\ Len(reqlog) = Len(CandidateEndpoints(args.same_code))
              /\ ret.err = ErrorOfRequest(Len(reqlog))
        /\ ret.kind = "return" => reqlog[Len(reqlog)].status = "ok"

\* All six endpoints failed, the first and the last with different exceptions, and
\* the last one's was raised.
C11_Witness ==
    /\ FetchDone
    /\ ret.kind = "raise"
    /\ Len(reqlog) = 6
    /\ \A j \in DOMAIN reqlog : reqlog[j].status = "error"
    /\ reqlog[1].exc # reqlog[6].exc
    /\ ret.err.exc = reqlog[6].exc
    /\ ret.err.url = reqlog[6].url

(***************************************************************************)
(* Properties of get_alerts_for_coordinates (checked under SpecLocation).  *)
(***************************************************************************)
CoordinatesCall == args.op = "get_alerts_for_coordinates"

\* The county and zone identifiers were resolved from the points lookup: both
\* are assigned (the zone identifier is assigned last).
IdsResolved ==
    /\ pc \in {"county", "zone", "done"}
    /\ ~IsNone(locals.county_id)
    /\ ~IsNone(locals.zone_id)

\* The alerts a query contributed: those parsed from the body it decoded, none if
\* the GET failed or the parse raised.
QueryAlerts(data, label, id) ==
    IF IsNone(data)
    THEN << >>
    ELSE LET r == _parse_alerts(data, <<label>> \o id)
         IN  IF r.kind = "return" THEN r.val ELSE << >>

\* C12: once the identifiers are resolved, get_alerts_for_coordinates issues the
\* county query and then the zone query whatever the county query's outcome, and
\* returns the county query's alerts followed by the zone query's alerts, nothing
\* left out.
C12_CountyThenZone ==
    (CoordinatesCall /\ IdsResolved) =>
        /\ pc = "county" => Len(reqlog) = 1
        /\ pc = "zone" =>
              /\ Len(reqlog) = 2
              /\ reqlog[2].url = BASE_URL \o ALERTS_ENDPOINT \o <<"/zone/">> \o locals.county_id.s
        /\ pc = "done" =>
              /\ Len(reqlog) = 3
              /\ reqlog[2].url = BASE_URL \o ALERTS_ENDPOINT \o <<"/zone/">> \o locals.county_id.s
              /\ reqlog[3].url = BASE_URL \o ALERTS_ENDPOINT \o <<"/zone/">> \o locals.zone_id.s
              /\ ret = Return(QueryAlerts(locals.county_data, "County: ", locals.county_id.s)
                              \o QueryAlerts(locals.zone_data, "Zone: ", locals.zone_id.s))

\* Both queries returned an alert with the same id, and the result holds both.
C12_Witness ==
    /\ CoordinatesCall
    /\ pc = "done"
    /\ ret.kind = "return"
    /\ Len(ret.val) = 2
    /\ ret.val[1].id = ret.val[2].id
    /\ ret.val[1].same_codes # ret.val[2].same_codes

\* The county query failed and the zone query's alerts were still returned.
C12_WitnessContained ==
    /\ CoordinatesCall
    /\ pc = "done"
    /\ Len(reqlog) = 3
    /\ reqlog[2].status = "error"
    /\ ret.kind = "return"
    /\ ret.val # << >>

\* The points lookup gave a body that is a map, whose properties are a map (or
\* missing, read as the empty map).
PointsSucceeded ==
    /\ pc \in {"county", "zone", "done"}
    /\ IsDict(locals.points_data)
    /\ IsDict(DictGet(locals.points_data, "properties", EmptyDict))

\* The reference key of the points lookup's properties is missing, null or empty.
ReferenceAbsent(key) ==
    LET properties == DictGet(locals.points_data, "properties", EmptyDict)
    IN  \/ key \notin DOMAIN properties.d
        \/ IsNone(properties.d[key])
        \/ properties.d[key] = EmptyStr

\* C13: when the points lookup succeeds but the county reference or the forecastZone
\* reference is absent, get_alerts_for_coordinates returns the empty list and the
\* points lookup is the only request it made.
C13_AbsentReferenceNoQuery ==
    (CoordinatesCall /\ PointsSucceeded
        /\ (ReferenceAbsent("county") \/ ReferenceAbsent("forecastZone"))) =>
        /\ pc = "done"
        /\ ret = Return(<< >>)
        /\ Len(reqlog) = 1

\* The county reference is absent and the forecastZone reference is present: the
\* call returned the empty list without a query for the zone.
C13_Witness ==
    /\ CoordinatesCall
    /\ PointsSucceeded
    /\ ReferenceAbsent("county")
    /\ ~ReferenceAbsent("forecastZone")
    /\ pc = "done"
    /\ ret = Return(<< >>)
    /\ Len(reqlog) = 1

(***************************************************************************)
(* Properties of get_alerts_for_location (checked under SpecLocation).     *)
(***************************************************************************)
\* The call ended with the points lookup, whose GET raised (transport error,
\* non-2xx status or a body that is not JSON).
PointsFailed ==
    /\ pc = "done"
    /\ reqlog # << >>
    /\ reqlog[Len(reqlog)].url[2] = "/points/"
    /\ reqlog[Len(reqlog)].status = "error"

\* C14: when the points lookup fails, get_alerts_for_coordinates raises the error,
\* get_alerts_for_location returns the empty list and
\* get_most_important_alerts_for_location returns None.
C14_FetchErrorsDegrade ==
    PointsFailed =>
        /\ args.op = "get_alerts_for_coordinates" =>
              ret = Raise([exc |-> reqlog[Len(reqlog)].exc, url |-> reqlog[Len(reqlog)].url])
        /\ args.op = "get_alerts_for_location" => ret = Return(<< >>)
        /\ args.op = "get_most_important_alerts_for_location" => ret = Return(None)

\* get_most_important_alerts_for_location returned None after a points lookup whose
\* body was not JSON.
C14_Witness ==
    /\ PointsFailed
    /\ reqlog[Len(reqlog)].exc = "JSONDecodeError"
    /\ args.op = "get_most_important_alerts_for_location"
    /\ ret = Return(None)

\* The call ended with the geocoder reporting failure.
GeocodeFailed ==
    /\ pc = "done"
    /\ Len(reqlog) = 1
    /\ reqlog[1].url[1] = "geocoder.arcgis"
    /\ reqlog[1].status = "error"

\* C15: when the geocoder reports failure, get_coordinates, get_alerts_for_location
\* and get_most_important_alerts_for_location all fail with the error that carries
\* the "city, state" string; none of them returns an empty list or None.
C15_GeocodeFailureSurfaces ==
    GeocodeFailed =>
        ret = Raise([exc |-> "ValueError",
                     msg |-> <<"Could not determine coordinates for ">>
                             \o args.city \o <<", ">> \o args.state])

(***************************************************************************)
(* Properties of the API operation (checked under SpecApi).                *)
(***************************************************************************)
ApiDone == pc = "done" /\ args.op = "get_weather_alert"

\* The request ended with the not-found outcome.
NotFound ==
    /\ ret.kind = "raise"
    /\ ret.err.exc = "HTTPException"
    /\ ret.err.status_code = 404

\* The geocoder reported failure to the get_coordinates call of the handler.
ApiGeocodeFailed == Len(reqlog) = 1 /\ reqlog[1].status = "error"

\* C16: get_weather_alert reports a geocoding failure as HTTP 404 whose detail names
\* the location, and reports nothing else as not-found.
C16_NotFoundOnlyForGeocoding ==
    ApiDone =>
        /\ ApiGeocodeFailed =>
              ret = Raise([exc |-> "HTTPException", status_code |-> 404,
                           detail |-> <<"Could not determine coordinates for ">>
                                      \o args.city \o <<", ">> \o args.state])
        /\ NotFound => ApiGeocodeFailed

\* A request that ended with 404 after the geocoder reported failure.
C16_Witness == ApiDone /\ ApiGeocodeFailed /\ NotFound

\* A request that failed after the location was resolved and was not reported as
\* not-found.
C16_WitnessOtherFailure ==
    ApiDone /\ ~ApiGeocodeFailed /\ ret.kind = "raise" /\ ~NotFound

\* The alert the ranking pipeline yields from the alerts it fetched.
PipelineAlert == most_important_of(locals.fetched, locals.reads)

ViewFields ==
    {"city", "state", "latitude", "longitude", "headline", "event", "severity",
     "severity_score", "urgency", "urgency_score", "certainty", "certainty_score",
     "expires", "description", "instruction", "nws_headline"}

\* C17: for a location the geocoder resolves, get_weather_alert returns: the view
\* with city, state, latitude and longitude only when the pipeline yields no alert,
\* and when it yields an alert the view with all the alert fields, the names of
\* severity, urgency and certainty and the expiry in UTC among them.
C17_AlertViewReturned ==
    (ApiDone /\ ~ApiGeocodeFailed) =>
        /\ ret.kind = "return"
        /\ ret.val.city = args.city
        /\ ret.val.state = args.state
        /\ ret.val.latitude = locals.api_latitude
        /\ ret.val.longitude = locals.api_longitude
        /\ IF IsNone(PipelineAlert)
           THEN DOMAIN ret.val = {"city", "state", "latitude", "longitude"}
           ELSE /\ DOMAIN ret.val = ViewFields
                /\ ret.val.severity = PipelineAlert.severity
                /\ ret.val.urgency = PipelineAlert.urgency
                /\ ret.val.certainty = PipelineAlert.certainty
                /\ ret.val.expires = <<UtcInstant(PipelineAlert.expires).s, " UTC">>

(***************************************************************************)
(* The score maps of the API on their own: the three score entries computed *)
(* for an alert, and a lookup of one name in one map with the default 0.    *)
(***************************************************************************)
ScoreFields == {"severity", "urgency", "certainty"}

ScoreNames ==
    Members(AlertSeverity) \cup Members(AlertUrgency) \cup Members(AlertCertainty)
    \cup {"INVALID_KEY"}

ScoreFieldsCalls == {[op |-> "score_fields", alert |-> a] : a \in ModelAlerts}

ScoreGetCalls ==
    {[op |-> "score_get", field |-> f, name |-> n] : f \in ScoreFields, n \in ScoreNames}

InitScores ==
    /\ now = 0
    /\ pc = "call"
    /\ args \in ScoreFieldsCalls \cup ScoreGetCalls
    /\ locals = << >>
    /\ ret = NoOutcome
    /\ reqlog = << >>

CallScoreFields ==
    /\ pc = "call"
    /\ args.op = "score_fields"
    /\ pc' = "done"
    /\ ret' = Return(score_fields(args.alert))
    /\ UNCHANGED <<now, args, locals, reqlog>>

CallScoreGet ==
    /\ pc = "call"
    /\ args.op = "score_get"
    /\ pc' = "done"
    /\ ret' = Return(score_field(args.field, args.name))
    /\ UNCHANGED <<now, args, locals, reqlog>>

NextScores == CallScoreFields \/ CallScoreGet

SpecScores == InitScores /\ [][NextScores]_vars

\* The ranks importance_score uses, per field.
RankOf(field) ==
    CASE field = "severity" -> severity_score
      [] field = "urgency" -> urgency_score
      [] field = "certainty" -> certainty_score

\* The ranks as the claim writes them.
StatedRank(name) ==
    CASE name \in {"UNKNOWN"} -> 0
      [] name \in {"MINOR", "FUTURE", "UNLIKELY"} -> 1
      [] name \in {"MODERATE", "EXPECTED", "POSSIBLE"} -> 2
      [] name \in {"SEVERE", "IMMEDIATE", "LIKELY"} -> 3
      [] name \in {"EXTREME", "OBSERVED"} -> 4

\* C18: the severity_score, urgency_score and certainty_score the API computes for
\* an alert equal, for every enum value, the ranks importance_score uses (the
\* stated ones: UNKNOWN 0 up to EXTREME 4, FUTURE 1 to IMMEDIATE 3, UNLIKELY 1 to
\* OBSERVED 4), and a lookup of a name missing from a map yields 0.
C18_ScoresEqualRanks ==
    /\ (pc = "done" /\ args.op = "score_fields") =>
        /\ ret.val.severity_score = severity_score[args.alert.severity]
        /\ ret.val.urgency_score = urgency_score[args.alert.urgency]
        /\ ret.val.certainty_score = certainty_score[args.alert.certainty]
        /\ ret.val.severity_score = StatedRank(args.alert.severity)
        /\ ret.val.urgency_score = StatedRank(args.alert.urgency)
        /\ ret.val.certainty_score = StatedRank(args.alert.certainty)
    /\ (pc = "done" /\ args.op = "score_get") =>
        ret.val = IF args.name \in DOMAIN RankOf(args.field)
                  THEN RankOf(args.field)[args.name]
                  ELSE 0

C18_Witness ==
    /\ pc = "done"
    /\ args.op = "score_fields"
    /\ args.alert.severity = "EXTREME"
    /\ args.alert.urgency = "IMMEDIATE"
    /\ args.alert.certainty = "LIKELY"
    /\ ret.val = [severity_score |-> 4, urgency_score |-> 3, certainty_score |-> 3]

C18_WitnessDefault ==
    /\ pc = "done"
    /\ args.op = "score_get"
    /\ args.name = "INVALID_KEY"
    /\ ret.val = 0

(***************************************************************************)
(* One WeatherAlertService receiving a sequence of get_coordinates calls.   *)
(* locals.calls keeps, for each finished call, the location, the outcome    *)
(* and whether the call invoked the geocoder.                               *)
(***************************************************************************)
MaxResolves == MAX_CACHE_SIZE + 2

ResolveCities == {<<"C", "i", "t", "y", Digit[i]>> : i \in 1..(MAX_CACHE_SIZE + 1)}

\* What the geocoder may answer for a city: its coordinates, or no result.
GeoResultsOf(city) == {GeoFound(Float(<<city[5]>>), Float(<<"-", city[5]>>)), GeoNotFound}

InitResolve ==
    /\ now = 0
    /\ pc = "idle"
    /\ args = [op |-> "none"]
    /\ locals = [calls |-> << >>]
    /\ ret = NoOutcome
    /\ reqlog = << >>

\* A caller invokes service.get_coordinates(city, state).
CallResolve(city, state) ==
    /\ pc = "idle"
    /\ Len(locals.calls) < MaxResolves
    /\ pc' = "geocode"
    /\ args' = [op |-> "get_coordinates", city |-> city, state |-> state]
    /\ ret' = NoOutcome
    /\ UNCHANGED <<now, locals, reqlog>>

\* get_coordinates from its first line to its return or raise: the geocoder is
\* invoked and answers g.
ResolveGeocode(g) ==
    /\ pc = "geocode"
    /\ args.op = "get_coordinates"
    /\ reqlog' = reqlog \o geocoder_calls(locals.calls, args.city, args.state, g)
    /\ ret' = get_coordinates(args.city, args.state, g)
    /\ locals' = [calls |-> Append(locals.calls,
                                   [key |-> location_of(args.city, args.state),
                                    outcome |-> ret',
                                    geocoded |-> Len(reqlog') > Len(reqlog)])]
    /\ pc' = "idle"
    /\ UNCHANGED <<now, args>>

NextResolve ==
    \/ \E city \in ResolveCities : CallResolve(city, s_SC)
    \/ (pc = "geocode" /\ \E g \in GeoResultsOf(args.city) : ResolveGeocode(g))

SpecResolve == InitResolve /\ [][NextResolve]_vars

\* The locations resolved with success by the first n calls.
ResolvedKeys(calls, n) ==
    {calls[i].key : i \in {k \in 1..n : calls[k].outcome.kind = "return"}}

\* C19: once resolve(city, state) has succeeded, a later resolve of the same
\* (city, state) whose entry was not evicted (at most MAX_CACHE_SIZE locations
\* have been resolved so far, so nothing was evicted) returns the same
\* coordinates and does not invoke the geocoder again.
C19_CacheHit ==
    pc = "idle" =>
        \A j \in 1..Len(locals.calls) : \A i \in 1..(j - 1) :
            ( /\ locals.calls[i].key = locals.calls[j].key
              /\ locals.calls[i].outcome.kind = "return"
              /\ Cardinality(ResolvedKeys(locals.calls, j - 1)) <= MAX_CACHE_SIZE )
            => /\ locals.calls[j].outcome = locals.calls[i].outcome
               /\ ~locals.calls[j].geocoded

\* The position of a key in the sort order of the keys.
KeyRank(key) ==
    CHOOSE i \in 1..(MAX_CACHE_SIZE + 1) :
        key = location_of(<<"C", "i", "t", "y", Digit[i]>>, s_SC)

RECURSIVE MakeRoom(_)
\* The cache after the entries first in key order have been evicted until one
\* new entry fits.
MakeRoom(cache) ==
    IF Cardinality(cache) < MAX_CACHE_SIZE
    THEN cache
    ELSE MakeRoom(cache \ {CHOOSE k \in cache : \A o \in cache : KeyRank(k) <= KeyRank(o)})

RECURSIVE CacheAfter(_, _)
\* The keys a cache of capacity MAX_CACHE_SIZE holds after the first n calls: a
\* successful resolve of a key not held makes room and inserts the key.
CacheAfter(calls, n) ==
    IF n = 0
    THEN {}
    ELSE IF calls[n].key \in CacheAfter(calls, n - 1) \/ calls[n].outcome.kind = "raise"
         THEN CacheAfter(calls, n - 1)
         ELSE MakeRoom(CacheAfter(calls, n - 1)) \cup {calls[n].key}

\* The entry of the location of call j was evicted: the location was resolved with
\* success before, and a cache of capacity MAX_CACHE_SIZE with the eviction
\* described does not hold it when call j is made.
Evicted(calls, j) ==
    /\ calls[j].key \in ResolvedKeys(calls, j - 1)
    /\ calls[j].key \notin CacheAfter(calls, j - 1)

\* C20: after any sequence of resolve calls, more than MAX_CACHE_SIZE distinct
\* locations included, the resolver never holds more than MAX_CACHE_SIZE entries
\* (the locations of a run of calls answered without the geocoder, all held at
\* once, number at most MAX_CACHE_SIZE), and a resolve of a location whose entry
\* was evicted invokes the geocoder again.
C20_CacheBounded ==
    pc = "idle" =>
        /\ \A i, j \in 1..Len(locals.calls) :
              (i <= j /\ \A k \in i..j : ~locals.calls[k].geocoded)
              => Cardinality({locals.calls[k].key : k \in i..j}) <= MAX_CACHE_SIZE
        /\ \A j \in 1..Len(locals.calls) :
              Evicted(locals.calls, j) => locals.calls[j].geocoded

\* MAX_CACHE_SIZE + 1 distinct locations were resolved, and then one of them
\* whose entry was evicted was resolved again, the geocoder being invoked.
C20_Witness ==
    /\ pc = "idle"
    /\ Len(locals.calls) = MAX_CACHE_SIZE + 2
    /\ Cardinality(ResolvedKeys(locals.calls, MAX_CACHE_SIZE + 1)) = MAX_CACHE_SIZE + 1
    /\ Evicted(locals.calls, MAX_CACHE_SIZE + 2)
    /\ locals.calls[MAX_CACHE_SIZE + 2].geocoded
    /\ locals.calls[MAX_CACHE_SIZE + 2].outcome.kind = "return"

(***************************************************************************)
(* Two alerts compared by importance_score, as the ranking and the tests   *)
(* compare them.                                                           *)
(***************************************************************************)
CompareCalls ==
    {[op |-> "compare", alert |-> a, other |-> b] : a \in ModelAlerts, b \in ModelAlerts}

InitCompare ==
    /\ now = 0
    /\ pc = "call"
    /\ args \in CompareCalls
    /\ locals = << >>
    /\ ret = NoOutcome
    /\ reqlog = << >>

\* alert.importance_score > other.importance_score
CallCompare ==
    /\ pc = "call"
    /\ args.op = "compare"
    /\ pc' = "done"
    /\ ret' = Return(importance_score(args.alert) > importance_score(args.other))
    /\ UNCHANGED <<now, args, locals, reqlog>>

NextCompare == CallCompare

SpecCompare == InitCompare /\ [][NextCompare]_vars

\* Two alerts of equal severity have been compared, the first of higher certainty.
HigherCertaintyCompared ==
    /\ pc = "done"
    /\ args.op = "compare"
    /\ args.alert.severity = args.other.severity
    /\ certainty_score[args.alert.certainty] > certainty_score[args.other.certainty]

\* C27 as stated: of two alerts of equal severity the one with the higher
\* certainty has the higher importance_score, whatever the two urgencies are.
C27_CertaintyBeforeUrgency == HigherCertaintyCompared => ret.val

\* C27 amended: of two alerts of equal severity, the one whose certainty is LIKELY
\* or OBSERVED and higher than the other's has the higher importance_score,
\* whatever the two urgencies are.
C27_BonusCertaintyBeforeUrgency ==
    (HigherCertaintyCompared /\ args.alert.certainty \in {"LIKELY", "OBSERVED"})
        => ret.val

C27_Witness ==
    /\ HigherCertaintyCompared
    /\ args.alert.severity = "EXTREME"
    /\ args.alert.certainty = "LIKELY"
    /\ args.alert.urgency = "UNKNOWN"
    /\ args.other.certainty = "POSSIBLE"
    /\ args.other.urgency = "IMMEDIATE"
    /\ ret.val

\* The most requests one fetch may issue for a code.
MostRequests(same_code) == IF Len(same_code) = 6 THEN 6 ELSE 4

\* No URL is requested twice, the requests follow the list of candidates, and
\* their number stays within the limit for the code.
NoEndpointRepeated ==
    /\ \A i \in 1..Len(reqlog) : \A j \in 1..Len(reqlog) :
          i # j => reqlog[i].url # reqlog[j].url
    /\ \A i \in 1..Len(reqlog) : \E k \in 1..MostRequests(args.same_code) :
          reqlog[i].url = CandidateEndpoints(args.same_code)[k]
    /\ Len(reqlog) <= MostRequests(args.same_code)

\* C24: in one call of _fetch_alerts_for_same_code each candidate endpoint is
\* requested at most once, a failed endpoint is never requested again, at most 6
\* requests are issued (4 when the code is not 6 characters long), and the call
\* ends by returning a list or raising once the requests are answered: every
\* answer of a request takes the call to the next candidate not yet tried or
\* ends it, and it has ended when the last candidate was answered.
C24_NoRetries ==
    [][ /\ NoEndpointRepeated'
        /\ pc = "fetch" =>
              /\ Len(reqlog') = Len(reqlog) + 1
              /\ reqlog'[Len(reqlog')].url =
                    CandidateEndpoints(args.same_code)[Len(reqlog')]
        /\ Len(reqlog') = MostRequests(args.same_code) => pc' = "done"
        /\ pc' = "done" => ret'.kind \in {"return", "raise"}
        /\ pc' \in {"fetch", "done"} ]_vars

\* With every request answered, the call ends.
C24_Terminates == <>(pc = "done" /\ ret.kind \in {"return", "raise"})

C24_Witness ==
    /\ pc = "done"
    /\ Len(args.same_code) = 6
    /\ Len(reqlog) = 6
    /\ \A i \in 1..6 : reqlog[i].status = "error"
    /\ ret.kind = "raise"

C24_WitnessShortCode ==
    /\ pc = "done"
    /\ Len(args.same_code) = 2
    /\ Len(reqlog) = 4
    /\ ret.kind = "raise"

\* A body of the form the alert source is specified to answer with: a JSON object
\* whose features, if any, are a list of objects with a properties map.
WellFormed(body) ==
    /\ IsDict(body)
    /\ "features" \in DOMAIN body.d => body.d["features"].t = "list"
    /\ \A i \in DOMAIN FeaturesOf(body) :
          /\ IsDict(FeaturesOf(body)[i])
          /\ IsDict(PropertiesOf(FeaturesOf(body)[i]))

\* The relevance test for the code fails on every feature of the body.
FilterMatchesNothing(body, code) ==
    /\ WellFormed(body)
    /\ \A i \in DOMAIN FeaturesOf(body) :
          zone_match(PropertiesOf(FeaturesOf(body)[i]), code) = Return(FALSE)

\* The unfiltered endpoint has just answered with a body.
MainEndpointAnswered ==
    /\ args.op = "_fetch_alerts_for_same_code"
    /\ Len(reqlog) = 1
    /\ reqlog[1].status = "ok"

\* C26: _fetch_alerts_for_same_code returns an empty list only when the last
\* endpoint requested responded successfully and its body yielded no alert; a
\* successful unfiltered endpoint whose filter matches nothing ends the fetch with
\* an empty list after that single request; and a call none of whose endpoints
\* responded successfully raises (the final return of an empty list is not taken).
C26_EmptyOnlyAfterSuccess ==
    /\ (FetchDone /\ ret = Return(<< >>)) =>
          /\ Len(reqlog) >= 1
          /\ reqlog[Len(reqlog)].status = "ok"
          /\ ParsedBody(reqlog[Len(reqlog)].url, locals.fetch.data, args.same_code) = << >>
    /\ (MainEndpointAnswered /\ FilterMatchesNothing(locals.fetch.data, args.same_code)) =>
          /\ pc = "done"
          /\ ret = Return(<< >>)
    /\ (FetchDone /\ \A i \in 1..Len(reqlog) : reqlog[i].status = "error") =>
          ret.kind = "raise"

C26_Witness ==
    /\ FetchDone
    /\ MainEndpointAnswered
    /\ Len(FeaturesOf(locals.fetch.data)) >= 1
    /\ FilterMatchesNothing(locals.fetch.data, args.same_code)
    /\ ret = Return(<< >>)

C26_WitnessAllFailed ==
    /\ FetchDone
    /\ Len(reqlog) = Len(CandidateEndpoints(args.same_code))
    /\ \A i \in 1..Len(reqlog) : reqlog[i].status = "error"
    /\ ret.kind = "raise"

C26_WitnessScopedEmpty ==
    /\ FetchDone
    /\ Len(reqlog) > 1
    /\ ret = Return(<< >>)

\* The step in which the fetch of the code same_codes[locals.ci] ends.
CodeFetchEnds ==
    /\ pc = "fetch"
    /\ args.op \in SameCodeOps
    /\ (pc' = "done" \/ locals'.ci # locals.ci)

\* What the ending fetch adds to all_alerts: nothing after a failed last request;
\* otherwise alerts that carry the code of the fetch, appended to those of the
\* codes before, which stay as they were.
ContributionOfCode ==
    LET code == args.same_codes[locals.ci]
        before == locals.all_alerts
        after == locals'.all_alerts
        last == reqlog'[Len(reqlog')]
    IN  /\ Len(after) >= Len(before)
        /\ SubSeq(after, 1, Len(before)) = before
        /\ \A k \in (Len(before) + 1)..Len(after) : after[k].same_codes = <<code>>
        /\ last.status = "error" => after = before
        /\ (pc' = "done" /\ last.status = "ok") =>
              after = before \o ParsedBody(last.url, locals'.fetch.data, code)
        /\ (pc' = "done" /\ args.op = "get_alerts_for_same_codes") =>
              ret' = Return(after)
        /\ pc' # "done" => locals'.ci = locals.ci + 1

\* C25: get_alerts_for_same_codes never raises; a code whose fetch exhausts all
\* endpoints contributes no alerts; the alerts of the other codes are returned,
\* concatenated in the order of the input codes, each alert carrying exactly the
\* code it was fetched under in same_codes.
C25_PerCodeFailuresContained ==
    [][ /\ ret'.kind # "raise"
        /\ CodeFetchEnds => ContributionOfCode ]_vars

C25_Witness ==
    /\ pc = "done"
    /\ args.op = "get_alerts_for_same_codes"
    /\ args.same_codes = <<c_045019, c_AL>>
    /\ Len(reqlog) = 7
    /\ \A i \in 1..6 : reqlog[i].status = "error"
    /\ reqlog[7].status = "ok"
    /\ ret.kind = "return"
    /\ Len(ret.val) = 2
    /\ \A k \in 1..2 : ret.val[k].same_codes = <<c_AL>>

C25_WitnessLaterCodeFails ==
    /\ pc = "done"
    /\ args.op = "get_alerts_for_same_codes"
    /\ args.same_codes = <<c_AL, c_045019>>
    /\ Len(reqlog) = 7
    /\ reqlog[1].status = "ok"
    /\ \A i \in 2..7 : reqlog[i].status = "error"
    /\ ret.kind = "return"
    /\ Len(ret.val) = 1
    /\ ret.val[1].same_codes = <<c_AL>>

\* A _parse_alerts_from_main_endpoint call has returned a list.
MainParsed ==
    /\ pc = "done"
    /\ args.op = "_parse_alerts_from_main_endpoint"
    /\ ret.kind = "return"

MainFeatures == FeaturesOf(args.data)

\* The identifiers of the zones feature i names: the last segments of the entries
\* of its affectedZones (of what iterating over the value gives, when it is not a
\* list), none when it names no zones.
ZoneIdsOf(i) ==
    LET ids == zone_ids_of(PropertiesOf(MainFeatures[i]))
    IN  IF ids.kind = "return" THEN {ids.val[k] : k \in DOMAIN ids.val} ELSE {}

\* The alert made of feature i is in the returned list.
ReturnedFeature(i) ==
    /\ IsDict(MainFeatures[i])
    /\ "properties" \in DOMAIN MainFeatures[i].d
    /\ IsDict(PropertiesOf(MainFeatures[i]))
    /\ \E k \in DOMAIN ret.val :
          ret.val[k].id = DictGet(PropertiesOf(MainFeatures[i]), "id", EmptyStr)

\* The code, its case variants, and for a 6-character code {state}Z{zone} and
\* {state}C{zone} with the leading zeros of the zone stripped.
StatedFormats(code) ==
    {code, upper(code), lower(code)} \cup
    (IF Len(code) = 6
     THEN {SubSeq(code, 1, 2) \o <<"Z">> \o lstrip0(SubSeq(code, 3, 6)),
           SubSeq(code, 1, 2) \o <<"C">> \o lstrip0(SubSeq(code, 3, 6))}
     ELSE {})

\* For a 6-character code also the state part, the zone part and the zone part
\* with leading zeros stripped, each on its own.
PartFormats(code) ==
    IF Len(code) = 6
    THEN {SubSeq(code, 1, 2), SubSeq(code, 3, 6), lstrip0(SubSeq(code, 3, 6))}
    ELSE {}

\* Some format is a substring of a zone identifier of feature i or contains one.
MatchesZone(formats, i) ==
    \E f \in formats : \E z \in ZoneIdsOf(i) : IsSubstring(f, z) \/ IsSubstring(z, f)

\* C23 as stated: an alert is returned by _parse_alerts_from_main_endpoint only if
\* the code, a case variant of it, or {state}Z{zone} / {state}C{zone} with leading
\* zeros stripped is a substring of one of its zone identifiers or contains one.
C23_MainEndpointFilter ==
    MainParsed =>
        \A i \in DOMAIN MainFeatures :
            ReturnedFeature(i) => MatchesZone(StatedFormats(args.same_code), i)

\* C23 amended: the formats matched are those of the claim and, for a 6-character
\* code, also its state part, its zone part and its zone part with leading zeros
\* stripped; an alert matching none of them, or without zones, is excluded.
C23_MainEndpointFilterWithParts ==
    MainParsed =>
        \A i \in DOMAIN MainFeatures :
            ReturnedFeature(i) =>
                MatchesZone(StatedFormats(args.same_code) \cup PartFormats(args.same_code), i)

C23_Witness ==
    /\ MainParsed
    /\ args.same_code = c_045019
    /\ Len(MainFeatures) = 2
    /\ ReturnedFeature(1)
    /\ ~MatchesZone(StatedFormats(args.same_code), 1)
    /\ MatchesZone(PartFormats(args.same_code), 1)
    /\ ~ReturnedFeature(2)
    /\ "expires" \in DOMAIN PropertiesOf(MainFeatures[2]).d
    /\ ZoneIdsOf(2) # {}
    /\ ~MatchesZone(StatedFormats(args.same_code) \cup PartFormats(args.same_code), 2)

C23_WitnessStatedFormat ==
    /\ MainParsed
    /\ args.same_code = c_AL
    /\ \E i \in DOMAIN MainFeatures :
          ReturnedFeature(i) /\ MatchesZone(StatedFormats(args.same_code), i)

\* The positions of the non-expired fetched alerts of the greatest score.
TopFetched ==
    {i \in ActiveFetched :
        \A j \in ActiveFetched :
            importance_score(locals.fetched[j]) <= importance_score(locals.fetched[i])}

\* C22: when several non-expired alerts share the greatest importance_score,
\* get_most_important_alerts_for_location returns the one first in fetch order,
\* the fetch order being the alerts of the county query in the order of its
\* response followed by those of the zone query in the order of its response.
C22_FirstOfTiesReturned ==
    (RankingDone /\ ActiveFetched # {}) =>
        /\ ret = Return(locals.fetched[CHOOSE i \in TopFetched :
                                           \A j \in TopFetched : i <= j])
        /\ Len(reqlog) = 4 =>
              locals.fetched = QueryAlerts(locals.county_data, "County: ", locals.county_id.s)
                               \o QueryAlerts(locals.zone_data, "Zone: ", locals.zone_id.s)

\* A county alert and a zone alert tie, and the county alert is returned.
C22_Witness ==
    /\ RankingDone
    /\ Len(reqlog) = 4
    /\ Cardinality(TopFetched) >= 2
    /\ \E i \in TopFetched : \E j \in TopFetched :
          /\ i < j
          /\ ret.val = locals.fetched[i]
          /\ locals.fetched[j] # locals.fetched[i]
          /\ locals.fetched[i].same_codes # locals.fetched[j].same_codes

\* Two alerts of one response tie, and the one first in the response is returned.
C22_WitnessSameQuery ==
    /\ RankingDone
    /\ \E i \in TopFetched : \E j \in TopFetched :
          /\ i < j
          /\ ret.val = locals.fetched[i]
          /\ locals.fetched[i].same_codes = locals.fetched[j].same_codes
          /\ locals.fetched[i].id # locals.fetched[j].id

(***************************************************************************)
(* SpecRanking: the calls of SpecCodes and of SpecLocation together, so    *)
(* that both selections run in one specification.                          *)
(***************************************************************************)
InitRanking == InitCodes \/ InitLocation

NextRanking == NextCodes \/ NextLocation

SpecRanking == InitRanking /\ [][NextRanking]_vars

\* seq is the beginning of longer.
IsPrefix(seq, longer) ==
    /\ Len(seq) <= Len(longer)
    /\ SubSeq(longer, 1, Len(seq)) = seq

\* C21: an alert never changes after it was constructed: the lists of fetched
\* alerts only grow at their end, and every alert get_most_important_alerts or
\* get_most_important_alerts_for_location returns equals, in every field, one of
\* the fetched alerts as it was constructed.
C21_AlertsNeverChange ==
    [][ /\ (pc = "fetch" /\ args.op \in SameCodeOps) =>
              IsPrefix(locals.all_alerts, locals'.all_alerts)
        /\ (pc = "county" /\ pc' = "zone") => IsPrefix(locals.alerts, locals'.alerts)
        /\ pc = "zone" =>
              /\ IsPrefix(locals.alerts, locals'.alerts)
              /\ locals'.alerts = locals.alerts
                    \o QueryAlerts(locals'.zone_data, "Zone: ", locals.zone_id.s)
              /\ args.op = "get_most_important_alerts_for_location" =>
                    locals'.fetched = locals'.alerts
        /\ (pc' = "done" /\ args.op = "get_most_important_alerts") =>
              /\ ret'.kind = "return"
              /\ \A code \in DOMAIN ret'.val :
                    \/ IsNone(ret'.val[code])
                    \/ \E i \in DOMAIN locals'.all_alerts :
                          ret'.val[code] = locals'.all_alerts[i]
        /\ (pc' = "done" /\ args.op = "get_most_important_alerts_for_location") =>
              /\ ret'.kind = "return"
              /\ \/ IsNone(ret'.val)
                 \/ \E i \in DOMAIN locals'.fetched : ret'.val = locals'.fetched[i]
      ]_vars

\* get_most_important_alerts put a later, more important alert in the place of
\* the first non-expired one of its code.
C21_Witness ==
    /\ pc = "done"
    /\ args.op = "get_most_important_alerts"
    /\ \E code \in DOMAIN ret.val : \E i \in DOMAIN locals.all_alerts :
          /\ i >= 2
          /\ ret.val[code] = locals.all_alerts[i]
          /\ ~is_expired(locals.all_alerts[1], locals.reads[1])
          /\ locals.all_alerts[1].same_codes = <<code>>
          /\ locals.all_alerts[1].id # locals.all_alerts[i].id
          /\ importance_score(locals.all_alerts[1]) < importance_score(locals.all_alerts[i])

\* get_most_important_alerts_for_location returned a zone alert after a less
\* important county alert.
C21_WitnessLocation ==
    /\ RankingDone
    /\ Len(locals.fetched) >= 2
    /\ ~is_expired(locals.fetched[1], locals.reads[1])
    /\ \E i \in 2..Len(locals.fetched) :
          /\ ret.val = locals.fetched[i]
          /\ locals.fetched[i].same_codes # locals.fetched[1].same_codes

====
